---- MODULE Spec2Model ----
(***************************************************************************)
(* Full-page capture extension: scroll planning, the rate-limited capture  *)
(* gate, the capture session and its restoration, tile acquisition with    *)
(* duplicate detection, size-fitting encoders and the waiting loops.       *)
(* The repository holds several variants of contentScript.js; each variant *)
(* is modelled under its own name.                                         *)
(***************************************************************************)
EXTENDS Integers, Sequences, FiniteSets, TLC

Max(a, b) == IF a >= b THEN a ELSE b
Min(a, b) == IF a <= b THEN a ELSE b
Abs(a) == IF a >= 0 THEN a ELSE 0 - a
Last(s) == s[Len(s)]

(***************************************************************************)
(* Bounds of the model.                                                    *)
(***************************************************************************)
MaxTotalHeight == 12
MaxViewportHeight == 5
\* Times are in milliseconds.  Elapsed times saturate at TimeCap.
TimeCap == 1500
\* Largest latency of a capture-visible round trip / of captureVisibleTab.
LatencyMs == 100
\* Largest lateness of a setTimeout callback.
JitterMs == 20
\* Unit of the time a session spends between two safeCapture calls.
WorkMs == 400

(***************************************************************************)
(* Program constants.                                                      *)
(***************************************************************************)
CAPTURE_DELAY_MS == 700
CAPTURE_MAX_RETRIES == 3
CAPTURE_RETRY_BASE_DELAY == 300
CAPTURE_DELAY_MS_550 == 550
CFG_minCaptureGapMs == 550
CFG_captureRetries == 3
CFG_captureRetryBaseMs == 280
BG_maxRetries == 3
BG_delayMs == 250

\* The variants of contentScript.js held by the repository.
Variants == {"contentScript", "merged", "part_001", "part_003", "part_005"}

VARIABLES
  \* ---- rate-limited capture gate (safeCapture) and the background ----
  variant,          \* which contentScript.js variant runs
  bgKind,           \* "single": background.js 2-16; "retries": background.js 24-112
  gatePc,           \* position inside safeCapture
  attempt,          \* the loop variable `attempt` / `a`
  sentInCall,       \* capture-visible requests sent by the current call
  failedInCall,     \* failed responses seen by the current call
  sinceLastTs,      \* Date.now() - lastCaptureTs
  sinceSend,        \* time since the latest capture-visible request (NoGap: none yet)
  sendGap,          \* time between the two latest capture-visible requests
  sinceRespAtSend,  \* Date.now() - lastCaptureTs when the latest request was sent
  waitMs,           \* the delay handed to the pending setTimeout
  lastResp,         \* the latest response `res`
  thrownMsg,        \* message of the Error thrown by safeCapture
  bgPc,             \* position inside captureVisibleWithRetries
  bgI,              \* its loop variable `i`
  bgLastErr,        \* its `lastErr`
  bgData,           \* its `dataUrl`
  sinceTab,         \* time since the latest captureVisibleTab call (NoGap: none yet)
  tabGap,           \* time between the two latest captureVisibleTab calls
  \* ---- capture session (startCapture) and the page it acts on ----
  sessPc,           \* position inside startCapture
  scrollTop,        \* scrollingEl.scrollTop
  overflow,         \* scrollingEl.style.overflow
  zoom,             \* document.documentElement.style.zoom
  style,            \* inline style of each suppressed element
  saved,            \* originalOverflow / originalScrollTop / originalZoom
  pre,              \* the page before the session started
  styleBackups,     \* styleBackups / fixedCache
  posIdx,           \* index of the position being captured
  capturedDataUrls, \* accepted captures
  prevDataUrl,      \* part_003: the previously accepted capture
  nudgeAttempts,    \* part_003: nudgeAttempts
  capKind,          \* part_003: which safeCapture call is pending
  alerts,           \* messages shown with alert()
  downloads,        \* number of downloadBlob calls
  outcome,          \* how the promise of startCapture settled
  \* ---- size-fitting encoder ----
  encoder,          \* which variant's encoder runs
  encPc,            \* position inside the encoding part of startCapture
  imageCount,       \* images.length
  sizeOf,           \* byte sizes of the blobs encoded so far
  currentBatch,     \* currentBatch / current (tile indices)
  batchStart,       \* part_003: batchStart
  encI,             \* loop variable i (bi in the save loops)
  batches,          \* batches / result
  artifacts,        \* blobs handed to downloadBlob, in order
  \* ---- dynamic tile acquisition loops ----
  loopVariant,      \* "merged" (contentScript.js 431-552) or "part_004"
  loopPc,           \* position inside the acquisition part of startCapture
  tileCount,        \* imgs.length / capturedDataUrls.length
  tiles,            \* merged: the counter `tiles`
  remaining,        \* scrollHeight - viewport height - scrollTop
  step,             \* merged: `step`
  lastHash,         \* merged: `lastHash`
  acceptedTail,     \* the pictures of the last two collected tiles
  \* ---- waiting loops ----
  waitKind,         \* which waiting function runs
  waitPc,           \* "running" or "done"
  waitElapsed,      \* Date.now() - start
  sinceMutation,    \* waitForStableDOM: Date.now() - last
  scrollDist,       \* waitForScrollAndStability: |scrollY - targetY|
  stable,           \* stable / stableCount
  heightDelta,      \* scrollHeight - lastH
  gap,              \* preScrollAndStabilize: lastHeight - viewportH - y
  \* ---- scroll-position planner ----
  totalHeight,      \* measured total height H
  viewportHeight,   \* window.innerHeight V
  positions,        \* the planned offsets
  planner           \* which planner produced `positions` ("none" before planning)

VARIABLES
  \* ---- restoration on the exit paths of startCapture ----
  rVariant,         \* which startCapture runs
  rPc,              \* "body", "restoring" or "done"
  rPath,            \* "success": the body completed; "error": it threw
  rBlock,           \* "main": inline/finally block; "catch": the catch block
  rThrows,          \* the restoration steps that throw on this page
  rIdx,             \* the next statement of the restoring block
  rLog,             \* the restoration statements executed so far, in order
  rEmitted,         \* whether the artifacts were handed to the download
  rReport           \* "ok", "failed" (Capture failed alert) or "none"

restVars == <<rVariant, rPc, rPath, rBlock, rThrows, rIdx, rLog, rEmitted,
              rReport>>

VARIABLES
  \* ---- start-capture listeners of the content script ----
  lsnVariant,       \* whose listener is registered: "contentScript" or "merged"
  busy,             \* merged: `busy`
  started,          \* start-capture messages delivered so far
  sessions          \* the startCapture calls: position and captures left

lsnVars == <<lsnVariant, busy, started, sessions>>

VARIABLES
  \* ---- quality ladder of the encoder ----
  ladVariant,       \* whose ladder runs
  ladPc,            \* "ladder", "split" or "done"
  heightBatches,    \* part_004: tiles in each batch of makeBatchesByHeight
  ladB,             \* part_004: loop variable b (1-based)
  ladTried,         \* the encodes attempted on the current composite/batch
  ladOut            \* the blobs saved / pushed to outputs, in order

ladVars == <<ladVariant, ladPc, heightBatches, ladB, ladTried, ladOut>>

VARIABLES
  \* ---- tiled stitcher (stitchAndExportImages / stitchAndExportBlobs) ----
  stitcher,         \* "part_003" or "part_005"
  stPc,             \* "start", "tiling" or "done"
  stImages,         \* images[i].height
  stCursor,         \* `cursor`
  stParts           \* the canvases produced: height and drawImage calls

stVars == <<stitcher, stPc, stImages, stCursor, stParts>>

VARIABLES
  \* ---- overlap detection between consecutive tiles (part_003) ----
  aHashes,          \* a.rowHashes
  bHashes,          \* b.rowHashes
  injected,         \* rows of the end of a repeated at the start of b
  ovPc,             \* "start" or "done"
  overlaps          \* `overlaps`

ovVars == <<aHashes, bHashes, injected, ovPc, overlaps>>

VARIABLES
  \* ---- a fixed header during the capture loop ----
  hdrVariant,       \* "contentScript" (first variant) or "merged"
  hdrPc,            \* "detect", "loop" or "done"
  hdrClass,         \* how the header was found: by selector, by probing, both
  hdrState,         \* "fixed", "flow" (position: static) or "hidden"
  hdrLeft,          \* tiles still to capture
  hdrTiles          \* per captured tile: is the header in the picture

hdrVars == <<hdrVariant, hdrPc, hdrClass, hdrState, hdrLeft, hdrTiles>>

VARIABLES
  \* ---- static plan on a page that grows during the capture loop ----
  gPlanner,         \* whose plan and loop run: "contentScript" or "part_001"
  gPc,              \* "loop" or "done"
  gPositions,       \* `positions`, computed once before the loop
  gIdx,             \* index of the next position
  liveHeight,       \* the page's scrollHeight now
  gViewport,        \* window.innerHeight
  gTops             \* scrollTop at each capture

growVars == <<gPlanner, gPc, gPositions, gIdx, liveHeight, gViewport, gTops>>

VARIABLES
  \* ---- inline styles of one suppressed element across a session ----
  styVariant,       \* "contentScript", "part_001" or "merged"
  styPc,            \* "detect", "suppressed" or "done"
  styEl,            \* the element: "header" (hide) or "widget" (static)
  styHidden,        \* getComputedStyle(el).display === 'none' at suppression
  elStyle,          \* el.style, property -> value
  elBackup,         \* the backup record taken before suppression
  scripted          \* properties a page script wrote during the session

styVars == <<styVariant, styPc, styEl, styHidden, elStyle, elBackup, scripted>>

VARIABLES
  \* ---- the scroll probe of the fixed-element detection ----
  prVariant,        \* "contentScript" or "part_002"
  prPc,             \* "before", "forward" or "after"
  prTop,            \* window.scrollY
  prStart,          \* the offset before the probe
  prMax             \* the maximum scroll offset of the page

prVars == <<prVariant, prPc, prTop, prStart, prMax>>

VARIABLES
  \* ---- encodes that return no data ----
  nbVariant,        \* "contentScript", "part_003" or "part_004"
  nbPc,             \* "ladder", "singles", "split", "failed" or "done"
  nbTried,          \* outcome of each encode of the ladder so far
  nbOut             \* number of blobs saved or pushed to outputs

nbVars == <<nbVariant, nbPc, nbTried, nbOut>>

VARIABLES
  \* ---- sessions without a body or without usable tiles ----
  ncVariant,        \* "contentScript", "merged", "part_003" or "part_004"
  hasBody,          \* document.body is not null
  ncPc,             \* "start", "capture", "load", "stitch" or "done"
  ncCaptured,       \* number of captured data URLs
  ncLoads,          \* for each loaded data URL, whether loadImage resolved
  ncOutcome,        \* "none", "fatal" or "saved"
  ncArtifacts       \* number of files downloaded

ncVars == <<ncVariant, hasBody, ncPc, ncCaptured, ncLoads, ncOutcome,
            ncArtifacts>>

VARIABLES
  \* ---- file names of the artifacts ----
  nmVariant,        \* "contentScript", "part_004" or "merged"
  nmPc,             \* "save" or "done"
  nmHost,           \* location.hostname
  nmNow,            \* the clock reading taken for the names
  nmSplit,          \* the artifacts are batches (not the single composite)
  nmCount,          \* number of blobs to save
  nmNames           \* names passed to downloadBlob so far

nmVars == <<nmVariant, nmPc, nmHost, nmNow, nmSplit, nmCount, nmNames>>

VARIABLES
  \* ---- what a merged-variant session installs on the page ----
  tdPc,             \* "setup", "top", "loop", "sweep", "stitch", "output", "done"
  tdDetected,       \* the bands and overlays detected on the page
  tdHud,            \* the HUD element is in the document
  tdObserver,       \* "none", "observing" or "disconnected"
  tdLocks,          \* elements hidden by hideAndLock and not yet cleaned up
  tdTiles,          \* tiles captured
  tdOutcome         \* "none", "ok" or "failed"

tdVars == <<tdPc, tdDetected, tdHud, tdObserver, tdLocks, tdTiles, tdOutcome>>

VARIABLES
  \* ---- the adaptive zoom loop of part_003 ----
  zPc,              \* "measure", "attempt" or "stopped"
  zoomU,            \* `zoom`, in units of 1e-7
  zAttempt,         \* `attempt`
  zEst,             \* estimatedPixelH
  zVpx,             \* pixel height of one captured tile
  zTotal            \* totalPixelHeight of the last attempt

zoomVars == <<zPc, zoomU, zAttempt, zEst, zVpx, zTotal>>

VARIABLES
  \* ---- forced styles at the moment a capture request is sent ----
  raVariant,        \* "contentScript" or "part_002"
  raPc,             \* "settle", "awaiting", "backoff" or "done"
  raForced,         \* the suppressed element carries its forced styles
  raAttempt,        \* `attempt` of safeCapture
  raTiles,          \* tiles captured so far
  raPlanned,        \* positions.length
  raSentForced      \* raForced at the moment of the last sendMessage

raVars == <<raVariant, raPc, raForced, raAttempt, raTiles, raPlanned,
            raSentForced>>

VARIABLES
  \* ---- the composite canvas ----
  cmpVariant,       \* "part_003" (overlaps) or "merged" (cropped band)
  cmpPc,            \* "size", "draw" or "done"
  cmpTiles,         \* the loaded tiles, [width, height]
  cmpOverlaps,      \* part_003: overlaps[i] between tile i and tile i + 1
  cmpCrop,          \* merged: cropTopDpx
  canvasSize,       \* [width, height] of the canvas
  yOff,             \* the draw offset
  cmpIdx,           \* number of tiles drawn
  cmpDraws          \* destination rows [top, bottom) of each draw

cmpVars == <<cmpVariant, cmpPc, cmpTiles, cmpOverlaps, cmpCrop, canvasSize,
             yOff, cmpIdx, cmpDraws>>

VARIABLES
  \* ---- findVerticalOverlap on arbitrary arguments ----
  foA,              \* aHashes
  foB,              \* bHashes
  foMaxCheck,       \* maxCheck
  foPc,             \* "call", "done" or "idle"
  foResult          \* the value returned

foVars == <<foA, foB, foMaxCheck, foPc, foResult>>

VARIABLES
  \* ---- an element recorded more than once by suppression ----
  dupVariant,       \* "part_004" or "merged"
  dupPc,            \* "record", "restore", "done" or "idle"
  dupFixed,         \* part_004: computed position is fixed or sticky
  dupTimes,         \* how many times the element is in the list(s)
  dupOrig,          \* the element's inline style before the session
  dupStyle,         \* the element's inline style
  dupRecs,          \* elementsToRestore / locks, entries of this element
  dupIdx            \* entries restored so far

dupVars == <<dupVariant, dupPc, dupFixed, dupTimes, dupOrig, dupStyle,
             dupRecs, dupIdx>>

VARIABLES
  \* ---- two sessions of the first variant in one page ----
  twZoom,           \* document.documentElement.style.zoom
  twOverflow,       \* scrollingEl.style.overflow
  twOrigZoom,       \* the zoom before the first session
  twOrigOverflow,   \* the overflow before the first session
  twSess            \* per session: pc, originalZoom, originalOverflow

twVars == <<twZoom, twOverflow, twOrigZoom, twOrigOverflow, twSess>>

VARIABLES
  \* ---- a page no taller than the viewport ----
  shVariant,        \* "contentScript", "part_004" or "merged"
  shPc,             \* "start", "loop", "sweep", "done" or "idle"
  shHeight,         \* total height of the page
  shViewport,       \* viewport height
  shTop,            \* scrollTop
  shPositions,      \* contentScript: the planned offsets
  shLastHash,       \* merged: lastHash
  shTiles           \* pictures of the tiles collected

shVars == <<shVariant, shPc, shHeight, shViewport, shTop, shPositions,
            shLastHash, shTiles>>

VARIABLES
  \* ---- the background's message listeners ----
  bkVariant,        \* "background", "part_006" or "part_007"
  bkMsg,            \* action of the message being handled
  bkMsgNo,          \* messages received so far
  bkPc,             \* per listener: "waiting", "declined", a stage, "done"
  bkAttempts,       \* per listener: failed attempts of captureVisibleTab
  bkProcessed,      \* listeners that took the message
  bkResponses       \* arguments of the calls of sendResponse, in order

bkVars == <<bkVariant, bkMsg, bkMsgNo, bkPc, bkAttempts, bkProcessed,
            bkResponses>>

VARIABLES
  \* ---- makeBatchesByHeight (part_004) ----
  mbImages,         \* images, each [id, height]
  mbMaxHeight,      \* maxHeight
  mbPc,             \* "call", "done" or "idle"
  mbBatches         \* the batches returned

mbVars == <<mbImages, mbMaxHeight, mbPc, mbBatches>>

VARIABLES
  \* ---- the viewer's crop rectangle ----
  vwWidth,          \* container.clientWidth
  vwHeight,         \* container.clientHeight
  vwAspect,         \* aspectSelect.value
  cropping,         \* `cropping`
  cropStart,        \* `cropStart`, a point or null
  cropRect,         \* `cropRect`, [x, y, w, h] or null
  selHidden,        \* selection.hidden
  selDrag,          \* `selDrag`, [sx, sy, orig] or null
  pointerOn         \* where the pointer went down: "up", "container", "selection"

vwVars == <<vwWidth, vwHeight, vwAspect, cropping, cropStart, cropRect,
            selHidden, selDrag, pointerOn>>

\* The parts of the program added after the waiting loops.
newVars == <<restVars, lsnVars, ladVars, stVars, ovVars, hdrVars, growVars, styVars, prVars, nbVars, ncVars, nmVars,
             tdVars, zoomVars, raVars, cmpVars, foVars, dupVars, twVars, shVars, bkVars, mbVars, vwVars>>

planVars == <<totalHeight, viewportHeight, positions, planner>>

gateVars == <<variant, bgKind, gatePc, attempt, sentInCall, failedInCall,
              sinceLastTs, sinceSend, sendGap, sinceRespAtSend, waitMs,
              lastResp, thrownMsg, bgPc, bgI, bgLastErr, bgData, sinceTab,
              tabGap>>

domVars == <<scrollTop, overflow, zoom, style>>

sessVars == <<sessPc, domVars, saved, pre, styleBackups, posIdx,
              capturedDataUrls, prevDataUrl, nudgeAttempts, capKind, alerts,
              downloads, outcome>>

encVars == <<encoder, encPc, imageCount, sizeOf, currentBatch, batchStart,
             encI, batches, artifacts>>

loopVars == <<loopVariant, loopPc, tileCount, tiles, remaining, step,
              lastHash, acceptedTail>>

waitVars == <<waitKind, waitPc, waitElapsed, sinceMutation, scrollDist,
              stable, heightDelta, gap>>

vars == <<planVars, gateVars, sessVars, encVars, loopVars, waitVars,
          newVars>>

\* The variables each part of the program leaves alone.
offGate == <<planVars, sessVars, encVars, loopVars, waitVars, newVars>>
offPlan == <<gateVars, sessVars, encVars, loopVars, waitVars, newVars>>
offSess == <<encVars, loopVars, waitVars, newVars>>
offEnc == <<planVars, gateVars, sessVars, loopVars, waitVars, newVars>>
offLoop == <<planVars, gateVars, sessVars, encVars, waitVars, newVars>>
offWait == <<planVars, gateVars, sessVars, encVars, loopVars, newVars>>
oldVars == <<planVars, gateVars, sessVars, encVars, loopVars, waitVars>>
offRest == <<oldVars, lsnVars, ladVars, stVars, ovVars, hdrVars, growVars, styVars, prVars, nbVars, ncVars, nmVars,
             tdVars, zoomVars, raVars, cmpVars, foVars, dupVars, twVars, shVars, bkVars, mbVars, vwVars>>
offLsn == <<oldVars, restVars, ladVars, stVars, ovVars, hdrVars, growVars, styVars, prVars, nbVars, ncVars, nmVars,
            tdVars, zoomVars, raVars, cmpVars, foVars, dupVars, twVars, shVars, bkVars, mbVars, vwVars>>
offLad == <<oldVars, restVars, lsnVars, stVars, ovVars, hdrVars, growVars, styVars, prVars, nbVars, ncVars, nmVars,
            tdVars, zoomVars, raVars, cmpVars, foVars, dupVars, twVars, shVars, bkVars, mbVars, vwVars>>
offSt == <<oldVars, restVars, lsnVars, ladVars, ovVars, hdrVars, growVars, styVars, prVars, nbVars, ncVars, nmVars,
           tdVars, zoomVars, raVars, cmpVars, foVars, dupVars, twVars, shVars, bkVars, mbVars, vwVars>>
offOv == <<oldVars, restVars, lsnVars, ladVars, stVars, hdrVars, growVars, styVars, prVars, nbVars, ncVars, nmVars,
           tdVars, zoomVars, raVars, cmpVars, foVars, dupVars, twVars, shVars, bkVars, mbVars, vwVars>>
offHdr == <<oldVars, restVars, lsnVars, ladVars, stVars, ovVars, growVars, styVars, prVars, nbVars, ncVars, nmVars,
            tdVars, zoomVars, raVars, cmpVars, foVars, dupVars, twVars, shVars, bkVars, mbVars, vwVars>>
offGrow == <<oldVars, restVars, lsnVars, ladVars, stVars, ovVars, hdrVars, styVars, prVars, nbVars, ncVars, nmVars,
             tdVars, zoomVars, raVars, cmpVars, foVars, dupVars, twVars, shVars, bkVars, mbVars, vwVars>>
offSty == <<oldVars, restVars, lsnVars, ladVars, stVars, ovVars, hdrVars, growVars, prVars, nbVars, ncVars, nmVars,
            tdVars, zoomVars, raVars, cmpVars, foVars, dupVars, twVars, shVars, bkVars, mbVars, vwVars>>
offProbe == <<oldVars, restVars, lsnVars, ladVars, stVars, ovVars, hdrVars, growVars, styVars, nbVars, ncVars, nmVars,
              tdVars, zoomVars, raVars, cmpVars, foVars, dupVars, twVars, shVars, bkVars, mbVars, vwVars>>
offBlob == <<oldVars, restVars, lsnVars, ladVars, stVars, ovVars, hdrVars, growVars, styVars, prVars, ncVars, nmVars,
             tdVars, zoomVars, raVars, cmpVars, foVars, dupVars, twVars, shVars, bkVars, mbVars, vwVars>>
offNc == <<oldVars, restVars, lsnVars, ladVars, stVars, ovVars, hdrVars, growVars, styVars, prVars, nbVars, nmVars,
           tdVars, zoomVars, raVars, cmpVars, foVars, dupVars, twVars, shVars, bkVars, mbVars, vwVars>>
offName == <<oldVars, restVars, lsnVars, ladVars, stVars, ovVars, hdrVars, growVars, styVars, prVars, nbVars, ncVars,
             tdVars, zoomVars, raVars, cmpVars, foVars, dupVars, twVars, shVars, bkVars, mbVars, vwVars>>
offTd == <<oldVars, restVars, lsnVars, ladVars, stVars, ovVars, hdrVars, growVars, styVars, prVars, nbVars, ncVars,
           nmVars, zoomVars, raVars, cmpVars, foVars, dupVars, twVars, shVars, bkVars, mbVars, vwVars>>
offZoom == <<oldVars, restVars, lsnVars, ladVars, stVars, ovVars, hdrVars, growVars, styVars, prVars, nbVars, ncVars,
             nmVars, tdVars, raVars, cmpVars, foVars, dupVars, twVars, shVars, bkVars, mbVars, vwVars>>
offRa == <<oldVars, restVars, lsnVars, ladVars, stVars, ovVars, hdrVars, growVars, styVars, prVars, nbVars, ncVars,
           nmVars, tdVars, zoomVars, cmpVars, foVars, dupVars, twVars, shVars, bkVars, mbVars, vwVars>>
offCmp == <<oldVars, restVars, lsnVars, ladVars, stVars, ovVars, hdrVars, growVars, styVars, prVars, nbVars, ncVars,
            nmVars, tdVars, zoomVars, raVars, foVars, dupVars, twVars, shVars, bkVars, mbVars, vwVars>>
offFo == <<oldVars, restVars, lsnVars, ladVars, stVars, ovVars, hdrVars, growVars, styVars, prVars, nbVars, ncVars,
           nmVars, tdVars, zoomVars, raVars, cmpVars, dupVars, twVars, shVars, bkVars, mbVars, vwVars>>
offDup == <<oldVars, restVars, lsnVars, ladVars, stVars, ovVars, hdrVars, growVars, styVars, prVars, nbVars, ncVars,
            nmVars, tdVars, zoomVars, raVars, cmpVars, foVars, twVars, shVars, bkVars, mbVars, vwVars>>
offTw == <<oldVars, restVars, lsnVars, ladVars, stVars, ovVars, hdrVars, growVars, styVars, prVars, nbVars, ncVars,
           nmVars, tdVars, zoomVars, raVars, cmpVars, foVars, dupVars, shVars, bkVars, mbVars, vwVars>>
offSh == <<oldVars, restVars, lsnVars, ladVars, stVars, ovVars, hdrVars, growVars, styVars, prVars, nbVars, ncVars,
           nmVars, tdVars, zoomVars, raVars, cmpVars, foVars, dupVars, twVars, bkVars, mbVars, vwVars>>
offBk == <<oldVars, restVars, lsnVars, ladVars, stVars, ovVars, hdrVars, growVars, styVars, prVars, nbVars, ncVars,
           nmVars, tdVars, zoomVars, raVars, cmpVars, foVars, dupVars, twVars, shVars, mbVars, vwVars>>
offMb == <<oldVars, restVars, lsnVars, ladVars, stVars, ovVars, hdrVars, growVars, styVars, prVars, nbVars, ncVars,
           nmVars, tdVars, zoomVars, raVars, cmpVars, foVars, dupVars, twVars, shVars, bkVars, vwVars>>
offVw == <<oldVars, restVars, lsnVars, ladVars, stVars, ovVars, hdrVars, growVars, styVars, prVars, nbVars, ncVars,
           nmVars, tdVars, zoomVars, raVars, cmpVars, foVars, dupVars, twVars, shVars, bkVars, mbVars>>

NoGap == 0 - 1
NoResp == [kind |-> "none"]

\* The state before safeCapture was ever called: lastCaptureTs = 0.
GateFresh ==
  /\ gatePc = "idle"
  /\ attempt = 0
  /\ sentInCall = 0
  /\ failedInCall = 0
  /\ sinceLastTs = TimeCap
  /\ sinceSend = NoGap
  /\ sendGap = NoGap
  /\ sinceRespAtSend = NoGap
  /\ waitMs = 0
  /\ lastResp = NoResp
  /\ thrownMsg = <<>>
  /\ bgPc = "idle"
  /\ bgI = 0
  /\ bgLastErr = ""
  /\ bgData = ""
  /\ sinceTab = NoGap
  /\ tabGap = NoGap

GateIdle ==
  /\ variant = "contentScript"
  /\ bgKind = "single"
  /\ GateFresh

\* `lastHash = null`; a hash is the set of the bit positions that are 1.
NullHash == [null |-> TRUE, bits |-> {}]

\* No acquisition loop has been started.
LoopIdle ==
  /\ loopVariant = "none"
  /\ loopPc = "idle"
  /\ tileCount = 0
  /\ tiles = 0
  /\ remaining = 0
  /\ step = 0
  /\ lastHash = NullHash
  /\ acceptedTail = <<>>

\* No waiting function has been called.
WaitIdle ==
  /\ waitKind = "none"
  /\ waitPc = "idle"
  /\ waitElapsed = 0
  /\ sinceMutation = 0
  /\ scrollDist = 0
  /\ stable = 0
  /\ heightDelta = 0
  /\ gap = 0

\* No encoding has been started.
EncIdle ==
  /\ encoder = "none"
  /\ encPc = "idle"
  /\ imageCount = 0
  /\ sizeOf = {}
  /\ currentBatch = <<>>
  /\ batchStart = 0
  /\ encI = 0
  /\ batches = <<>>
  /\ artifacts = <<>>

\* No session has been started.
SessIdle ==
  /\ sessPc = "idle"
  /\ scrollTop = 0
  /\ overflow = ""
  /\ zoom = ""
  /\ style = <<>>
  /\ saved = <<>>
  /\ pre = <<>>
  /\ styleBackups = <<>>
  /\ posIdx = 0
  /\ capturedDataUrls = <<>>
  /\ prevDataUrl = ""
  /\ nudgeAttempts = 0
  /\ capKind = "none"
  /\ alerts = <<>>
  /\ downloads = 0
  /\ outcome = "none"

\* No plan has been computed.
PlanIdle ==
  /\ totalHeight = 0
  /\ viewportHeight = 0
  /\ positions = <<>>
  /\ planner = "none"

\* No startCapture has reached its restoring block.
RestIdle ==
  /\ rVariant = "none"
  /\ rPc = "idle"
  /\ rPath = "none"
  /\ rBlock = "none"
  /\ rThrows = {}
  /\ rIdx = 0
  /\ rLog = <<>>
  /\ rEmitted = FALSE
  /\ rReport = "none"

\* No start-capture message was delivered.
LsnIdle ==
  /\ lsnVariant = "none"
  /\ busy = FALSE
  /\ started = 0
  /\ sessions = <<>>

\* No encode was attempted.
LadIdle ==
  /\ ladVariant = "none"
  /\ ladPc = "idle"
  /\ heightBatches = <<>>
  /\ ladB = 0
  /\ ladTried = <<>>
  /\ ladOut = <<>>

\* The stitcher was not called.
StIdle ==
  /\ stitcher = "none"
  /\ stPc = "idle"
  /\ stImages = <<>>
  /\ stCursor = 0
  /\ stParts = <<>>

\* No overlap was computed.
OvIdle ==
  /\ aHashes = <<>>
  /\ bHashes = <<>>
  /\ injected = 0
  /\ ovPc = "idle"
  /\ overlaps = <<>>

\* No header was looked for.
HdrIdle ==
  /\ hdrVariant = "none"
  /\ hdrPc = "idle"
  /\ hdrClass = "none"
  /\ hdrState = "fixed"
  /\ hdrLeft = 0
  /\ hdrTiles = <<>>

\* No static plan is being walked.
GrowIdle ==
  /\ gPlanner = "none"
  /\ gPc = "idle"
  /\ gPositions = <<>>
  /\ gIdx = 0
  /\ liveHeight = 0
  /\ gViewport = 0
  /\ gTops = <<>>

\* No element is being suppressed.
StyIdle ==
  /\ styVariant = "none"
  /\ styPc = "idle"
  /\ styEl = "none"
  /\ styHidden = FALSE
  /\ elStyle = <<>>
  /\ elBackup = <<>>
  /\ scripted = {}

\* No probe is running.
ProbeIdle ==
  /\ prVariant = "none"
  /\ prPc = "idle"
  /\ prTop = 0
  /\ prStart = 0
  /\ prMax = 0

\* No ladder with failing encodes is running.
BlobIdle ==
  /\ nbVariant = "none"
  /\ nbPc = "idle"
  /\ nbTried = <<>>
  /\ nbOut = 0

\* No such session is running.
NoContentIdle ==
  /\ ncVariant = "none"
  /\ hasBody = TRUE
  /\ ncPc = "idle"
  /\ ncCaptured = 0
  /\ ncLoads = <<>>
  /\ ncOutcome = "none"
  /\ ncArtifacts = 0

\* Nothing is being saved.
NameIdle ==
  /\ nmVariant = "none"
  /\ nmPc = "idle"
  /\ nmHost = ""
  /\ nmNow = 0
  /\ nmSplit = FALSE
  /\ nmCount = 0
  /\ nmNames = <<>>

\* No merged-variant session has installed anything.
TeardownIdle ==
  /\ tdPc = "idle"
  /\ tdDetected = {}
  /\ tdHud = FALSE
  /\ tdObserver = "none"
  /\ tdLocks = {}
  /\ tdTiles = 0
  /\ tdOutcome = "none"

\* The adaptive zoom loop is not running.
ZoomIdle ==
  /\ zPc = "idle"
  /\ zoomU = 0
  /\ zAttempt = 0
  /\ zEst = 0
  /\ zVpx = 0
  /\ zTotal = 0

\* No capture loop with forced styles is running.
ReassertIdle ==
  /\ raVariant = "none"
  /\ raPc = "idle"
  /\ raForced = FALSE
  /\ raAttempt = 0
  /\ raTiles = 0
  /\ raPlanned = 0
  /\ raSentForced = TRUE

\* No composite is being drawn.
CompositeIdle ==
  /\ cmpVariant = "none"
  /\ cmpPc = "idle"
  /\ cmpTiles = <<>>
  /\ cmpOverlaps = <<>>
  /\ cmpCrop = 0
  /\ canvasSize = [width |-> 0, height |-> 0]
  /\ yOff = 0
  /\ cmpIdx = 0
  /\ cmpDraws = <<>>

\* findVerticalOverlap is not being called on its own.
FindIdle ==
  /\ foA = <<>>
  /\ foB = <<>>
  /\ foMaxCheck = 0
  /\ foPc = "idle"
  /\ foResult = 0

\* No element is being recorded.
DupIdle ==
  /\ dupVariant = "none"
  /\ dupPc = "idle"
  /\ dupFixed = FALSE
  /\ dupTimes = 0
  /\ dupOrig = <<>>
  /\ dupStyle = <<>>
  /\ dupRecs = <<>>
  /\ dupIdx = 0

\* No pair of sessions is being followed.
TwoIdle ==
  /\ twZoom = ""
  /\ twOverflow = ""
  /\ twOrigZoom = ""
  /\ twOrigOverflow = ""
  /\ twSess = <<>>

\* No short page is being captured.
ShortIdle ==
  /\ shVariant = "none"
  /\ shPc = "idle"
  /\ shHeight = 0
  /\ shViewport = 0
  /\ shTop = 0
  /\ shPositions = <<>>
  /\ shLastHash = NullHash
  /\ shTiles = <<>>

\* No background listener is being followed.
BackgroundIdle ==
  /\ bkVariant = "none"
  /\ bkMsg = "none"
  /\ bkMsgNo = 0
  /\ bkPc = <<>>
  /\ bkAttempts = <<>>
  /\ bkProcessed = {}
  /\ bkResponses = <<>>

\* makeBatchesByHeight is not being called on its own.
BatchIdle ==
  /\ mbImages = <<>>
  /\ mbMaxHeight = 0
  /\ mbPc = "idle"
  /\ mbBatches = <<>>

\* null
VwNull == [null |-> TRUE]

\* No viewer is open.
ViewerIdle ==
  /\ vwWidth = 0
  /\ vwHeight = 0
  /\ vwAspect = "none"
  /\ cropping = FALSE
  /\ cropStart = VwNull
  /\ cropRect = VwNull
  /\ selHidden = TRUE
  /\ selDrag = VwNull
  /\ pointerOn = "idle"

NewIdle ==
  /\ RestIdle
  /\ LsnIdle
  /\ LadIdle
  /\ StIdle
  /\ OvIdle
  /\ HdrIdle
  /\ GrowIdle
  /\ StyIdle
  /\ ProbeIdle
  /\ BlobIdle
  /\ NoContentIdle
  /\ NameIdle
  /\ TeardownIdle
  /\ ZoomIdle
  /\ ReassertIdle
  /\ CompositeIdle
  /\ FindIdle
  /\ DupIdle
  /\ TwoIdle
  /\ ShortIdle
  /\ BackgroundIdle
  /\ BatchIdle
  /\ ViewerIdle

OldIdle ==
  /\ GateIdle
  /\ PlanIdle
  /\ SessIdle
  /\ EncIdle
  /\ LoopIdle
  /\ WaitIdle

(***************************************************************************)
(* Scroll-position planners.                                               *)
(***************************************************************************)

\* contentScript.js (first variant): the offset pushed after the while loop.
FinalOffsetCS(H, V) == Max(0, H - V)

\* contentScript.js (first variant):
\*   while (y < H - V) { positions.push(Math.round(y)); y += V; }
\*   positions.push(Math.max(0, H - V));
RECURSIVE PositionsCS(_, _, _, _)
PositionsCS(y, H, V, acc) ==
  IF y < H - V
  THEN PositionsCS(y + V, H, V, Append(acc, y))
  ELSE Append(acc, FinalOffsetCS(H, V))

\* part_001: the offset pushed in each iteration of the for loop.
PlannedOffset001_Unclamped(y, H, V) == y
PlannedOffset001(y, H, V) == Min(y, H - V)

\* part_001:
\*   for (y = 0; y < H; y += V) { push(min(y, H - V)); if (y + V >= H) break; }
RECURSIVE Positions001(_, _, _, _)
Positions001(y, H, V, acc) ==
  IF y < H
  THEN LET acc2 == Append(acc, PlannedOffset001(y, H, V))
       IN  IF y + V >= H THEN acc2 ELSE Positions001(y + V, H, V, acc2)
  ELSE acc

\* part_005 preScrollAndStabilize: the positions loop over finalH.
RECURSIVE PositionsPreScroll(_, _, _, _)
PositionsPreScroll(p, finalH, viewportH, acc) ==
  IF p < finalH
  THEN LET acc2 == Append(acc, Min(p, finalH - viewportH))
       IN  IF p + viewportH >= finalH THEN acc2
           ELSE PositionsPreScroll(p + viewportH, finalH, viewportH, acc2)
  ELSE acc

(***************************************************************************)
(* Rate-limited capture gate: safeCapture, and the background listeners    *)
(* that answer its capture-visible requests.                               *)
(***************************************************************************)
\* `res` is undefined when no listener answers the message.
UndefinedResp == [kind |-> "undefined"]
ErrorTexts == {"quota exceeded", "tab not visible"}
\* The pictures a capture can return (the data URL stands for its pixels).
Contents == {"A", "B"}
SuccessResp(c) == [kind |-> "success", dataUrl |-> c]
FailureResp(e) == [kind |-> "failure", error |-> e]
Responses ==
  {SuccessResp(c) : c \in Contents} \cup {UndefinedResp}
    \cup {FailureResp(e) : e \in ErrorTexts}

Latencies == {0, LatencyMs}
Jitters == {0, JitterMs}
WorkTimes == {0, WorkMs, 2 * WorkMs}

Pow2(n) == 2 ^ n

\* CAPTURE_DELAY_MS / CFG.minCaptureGapMs of each variant.
MinCaptureGap(v) ==
  CASE v = "contentScript" -> CAPTURE_DELAY_MS
    [] v = "merged"        -> CFG_minCaptureGapMs
    [] OTHER               -> CAPTURE_DELAY_MS_550

\* CAPTURE_MAX_RETRIES / CFG.captureRetries of each variant.
MaxRetries(v) == IF v = "merged" THEN CFG_captureRetries ELSE CAPTURE_MAX_RETRIES

\* CAPTURE_RETRY_BASE_DELAY / CFG.captureRetryBaseMs of each variant.
RetryBase(v) ==
  IF v = "merged" THEN CFG_captureRetryBaseMs ELSE CAPTURE_RETRY_BASE_DELAY

\* const backoff = CAPTURE_RETRY_BASE_DELAY * Math.pow(2, attempt - 1)
Backoff_Linear(v, a) == RetryBase(v) * a
Backoff(v, a) == RetryBase(v) * Pow2(a - 1)

\* res && res.success; merged: res?.success && res.dataUrl (the listeners of
\* background.js always send a non-empty dataUrl with success).
IsSuccess(v, res) ==
  /\ res.kind = "success"
  /\ v = "merged" => res.dataUrl # ""

\* res?.error || 'Unknown capture error'
ErrMsg_Generic(v, res) == "Unknown capture error"
ErrMsg(v, res) ==
  IF res.kind = "failure" THEN res.error
  ELSE IF v = "merged" THEN "unknown capture error" ELSE "Unknown capture error"

\* The message of the Error thrown when the retries are exhausted.
ThrownMessage(v, e) ==
  IF v = "part_005" THEN <<e>> ELSE <<"capture failed: ", e>>

Tick(x, d) == IF x = NoGap THEN NoGap ELSE Min(x + d, TimeCap)

InitGate ==
  /\ NewIdle
  /\ variant \in {"contentScript", "merged", "part_001"}
  /\ bgKind \in {"single", "retries"}
  /\ GateFresh
  /\ PlanIdle
  /\ SessIdle
  /\ EncIdle
  /\ LoopIdle
  /\ WaitIdle

\* Time d passes for every clock.
Elapse(d) ==
  /\ sinceLastTs' = Tick(sinceLastTs, d)
  /\ sinceSend' = Tick(sinceSend, d)
  /\ sinceTab' = Tick(sinceTab, d)

\* The session does other work (scroll, settle waits) between two calls.
GateWork(d) ==
  /\ gatePc = "idle"
  /\ Elapse(d)
  /\ UNCHANGED <<variant, bgKind, gatePc, attempt, sentInCall, failedInCall,
                 sendGap, sinceRespAtSend, waitMs, lastResp, thrownMsg,
                 bgPc, bgI, bgLastErr, bgData, tabGap>>

\* safeCapture entry: since = now - lastCaptureTs; wait if since < delay.
GateCall ==
  /\ gatePc = "idle"
  /\ attempt' = 1
  /\ sentInCall' = 0
  /\ failedInCall' = 0
  /\ thrownMsg' = <<>>
  /\ IF sinceLastTs < MinCaptureGap(variant)
     THEN /\ gatePc' = "throttle"
          /\ waitMs' = MinCaptureGap(variant) - sinceLastTs
     ELSE /\ gatePc' = "send"
          /\ waitMs' = 0
  /\ UNCHANGED <<variant, bgKind, sinceLastTs, sinceSend, sendGap,
                 sinceRespAtSend, lastResp, bgPc, bgI, bgLastErr, bgData, sinceTab,
                 tabGap>>

\* The throttling setTimeout fires (j late).
GateThrottleDone(j) ==
  /\ gatePc = "throttle"
  /\ Elapse(waitMs + j)
  /\ gatePc' = "send"
  /\ UNCHANGED <<variant, bgKind, attempt, sentInCall, failedInCall, sendGap,
                 sinceRespAtSend, waitMs, lastResp, thrownMsg, bgPc, bgI,
                 bgLastErr, bgData, tabGap>>

\* chrome.runtime.sendMessage({ action: 'capture-visible' }, resolve).  The
\* "single" background calls captureVisibleTab at once on receiving it; the
\* "retries" background starts captureVisibleWithRetries.
GateSend ==
  /\ gatePc = "send"
  /\ gatePc' = "await"
  /\ sentInCall' = sentInCall + 1
  /\ sendGap' = sinceSend
  /\ sinceSend' = 0
  /\ sinceRespAtSend' = sinceLastTs
  /\ IF bgKind = "single"
     THEN /\ tabGap' = sinceTab
          /\ sinceTab' = 0
          /\ UNCHANGED <<bgPc, bgI, bgLastErr>>
     ELSE /\ bgPc' = "capture"
          /\ bgI' = 0
          /\ bgLastErr' = ""
          /\ UNCHANGED <<sinceTab, tabGap>>
  /\ UNCHANGED bgData
  /\ UNCHANGED <<variant, bgKind, attempt, failedInCall, sinceLastTs, waitMs,
                 lastResp, thrownMsg>>

\* What safeCapture does with the response `res`, which arrives after `lat`:
\* lastCaptureTs = Date.now(); return, throw or back off.
Receive(res, lat) ==
  /\ sinceSend' = Tick(sinceSend, lat)
  /\ sinceLastTs' = 0
  /\ lastResp' = res
  /\ IF IsSuccess(variant, res)
     THEN /\ gatePc' = "returned"
          /\ UNCHANGED <<failedInCall, waitMs, thrownMsg>>
     ELSE /\ failedInCall' = failedInCall + 1
          /\ IF variant # "merged" /\ attempt = MaxRetries(variant)
             THEN /\ gatePc' = "thrown"
                  /\ thrownMsg' = ThrownMessage(variant, ErrMsg(variant, res))
                  /\ UNCHANGED waitMs
             ELSE /\ gatePc' = "backoff"
                  /\ waitMs' = Backoff(variant, attempt)
                  /\ UNCHANGED thrownMsg
  /\ UNCHANGED <<variant, bgKind, attempt, sentInCall, sendGap,
                 sinceRespAtSend>>

\* background.js 2-16: the captureVisibleTab callback answers the request.
GateResponse(res, lat) ==
  /\ gatePc = "await"
  /\ bgKind = "single"
  /\ res \in Responses
  /\ Receive(res, lat)
  /\ sinceTab' = Tick(sinceTab, lat)
  /\ UNCHANGED <<bgPc, bgI, bgLastErr, bgData, tabGap>>

\* The backoff setTimeout fires (j late): next attempt, or (merged variant)
\* the loop ends and the error is thrown.
GateBackoffDone(j) ==
  /\ gatePc = "backoff"
  /\ Elapse(waitMs + j)
  /\ IF attempt = MaxRetries(variant)
     THEN /\ gatePc' = "thrown"
          /\ thrownMsg' = ThrownMessage(variant, ErrMsg(variant, lastResp))
          /\ UNCHANGED attempt
     ELSE /\ gatePc' = "send"
          /\ attempt' = attempt + 1
          /\ UNCHANGED thrownMsg
  /\ UNCHANGED <<variant, bgKind, sentInCall, failedInCall, sendGap,
                 sinceRespAtSend, waitMs, lastResp, bgPc, bgI, bgLastErr, bgData,
                 tabGap>>

\* captureVisibleWithRetries: one chrome.tabs.captureVisibleTab call, which
\* settles after `lat`; on failure wait delayMs * (i + 1).
BgCapture(ok, c, e, lat) ==
  /\ gatePc = "await"
  /\ bgPc = "capture"
  /\ tabGap' = sinceTab
  /\ sinceTab' = Min(lat, TimeCap)
  /\ sinceSend' = Tick(sinceSend, lat)
  /\ sinceLastTs' = Tick(sinceLastTs, lat)
  /\ IF ok
     THEN /\ bgPc' = "respondOk"
          /\ bgData' = c
          /\ UNCHANGED <<bgLastErr, waitMs>>
     ELSE /\ bgPc' = "wait"
          /\ bgLastErr' = e
          /\ waitMs' = BG_delayMs * (bgI + 1)
          /\ UNCHANGED bgData
  /\ UNCHANGED <<variant, bgKind, gatePc, attempt, sentInCall, failedInCall,
                 sendGap, sinceRespAtSend, lastResp, thrownMsg, bgI>>

\* The background's setTimeout fires (j late); i++.
BgWaitDone(j) ==
  /\ gatePc = "await"
  /\ bgPc = "wait"
  /\ Elapse(waitMs + j)
  /\ bgI' = bgI + 1
  /\ bgPc' = IF bgI + 1 < BG_maxRetries THEN "capture" ELSE "respondErr"
  /\ UNCHANGED <<variant, bgKind, gatePc, attempt, sentInCall, failedInCall,
                 sendGap, sinceRespAtSend, waitMs, lastResp, thrownMsg,
                 bgLastErr, bgData, tabGap>>

\* background.js 97-108: sendResponse with the data URL or with lastErr.
BgRespond ==
  /\ gatePc = "await"
  /\ bgPc \in {"respondOk", "respondErr"}
  /\ Receive(IF bgPc = "respondOk" THEN SuccessResp(bgData)
             ELSE FailureResp(bgLastErr), 0)
  /\ bgPc' = "idle"
  /\ UNCHANGED <<bgI, bgLastErr, bgData, sinceTab, tabGap>>

\* The caller takes the data URL (or a later session starts after a failed
\* one): safeCapture can be called again.
GateResume ==
  /\ gatePc \in {"returned", "thrown"}
  /\ gatePc' = "idle"
  /\ UNCHANGED <<variant, bgKind, attempt, sentInCall, failedInCall,
                 sinceLastTs, sinceSend, sendGap, sinceRespAtSend, waitMs,
                 lastResp, thrownMsg, bgPc, bgI, bgLastErr, bgData, sinceTab, tabGap>>

NextGate ==
  \/ (\E d \in WorkTimes : GateWork(d)) /\ UNCHANGED offGate
  \/ GateCall /\ UNCHANGED offGate
  \/ (\E j \in Jitters : GateThrottleDone(j)) /\ UNCHANGED offGate
  \/ GateSend /\ UNCHANGED offGate
  \/ (\E res \in Responses, lat \in Latencies : GateResponse(res, lat))
       /\ UNCHANGED offGate
  \/ (\E j \in Jitters : GateBackoffDone(j)) /\ UNCHANGED offGate
  \/ (\E ok \in BOOLEAN, c \in Contents, e \in ErrorTexts, lat \in Latencies :
        BgCapture(ok, c, e, lat))
       /\ UNCHANGED offGate
  \/ (\E j \in Jitters : BgWaitDone(j)) /\ UNCHANGED offGate
  \/ BgRespond /\ UNCHANGED offGate
  \/ GateResume /\ UNCHANGED offGate

SpecGate == InitGate /\ [][NextGate]_vars

\* C4 (as stated): any two successive capture-visible requests, and any two
\* successive captureVisibleTab calls, are at least the minimum capture
\* interval apart.
C4_MinCaptureInterval ==
  /\ (sendGap # NoGap => sendGap >= MinCaptureGap(variant))
  /\ (tabGap # NoGap => tabGap >= MinCaptureGap(variant))

\* C5: one safeCapture call sends at most CAPTURE_MAX_RETRIES requests, sends
\* nothing after a successful response, and before attempt k + 1 waits
\* base * 2^(k-1) ms after the k-th failed response.
C5_RetriesAndBackoff ==
  /\ sentInCall <= CAPTURE_MAX_RETRIES
  /\ (gatePc = "returned" =>
        IsSuccess(variant, lastResp) /\ sentInCall = failedInCall + 1)
  /\ (gatePc = "backoff" =>
        /\ failedInCall = attempt
        /\ waitMs = RetryBase(variant) * Pow2(failedInCall - 1))
  /\ (gatePc = "await" /\ sentInCall > 1 =>
        /\ sentInCall = failedInCall + 1
        /\ sinceRespAtSend >= RetryBase(variant) * Pow2(sentInCall - 2))

\* The third request of a call has been sent after two failed responses.
C5_Witness ==
  /\ gatePc = "await"
  /\ sentInCall = 3
  /\ failedInCall = 2
  /\ variant = "part_001"

(***************************************************************************)
(* Capture session: startCapture of the static-plan variants, the page it  *)
(* modifies and restores, and the start-capture listener that reports a    *)
(* rejected session.                                                       *)
(***************************************************************************)
MaxSessHeight == 6
MaxParts == 2

CAPTURE_POST_SCROLL_WAIT == 400
SMALL_SCROLL == 120
STABILITY_STABLE_CHECKS == 3
STABILITY_STABLE_DELAY == 120
STABILITY_EXTRA_PAUSE == 80
NUDGE_PAUSE == 120
MAX_NUDGES == 2
RAF_SETTLE_WAIT == 420

SessVariants == {"contentScript", "part_001", "part_003", "part_005"}
SessViewports == {2, 3}

\* The elements a session suppresses: a page header and a floating widget.
Els == {"header", "widget"}

\* Inline styles an element can carry before the session.
NoInlineStyle ==
  [position |-> "", top |-> "", bottom |-> "", zIndex |-> "",
   transform |-> "", display |-> "", visibility |-> "", pointerEvents |-> ""]
AuthorInlineStyle ==
  [position |-> "fixed", top |-> "0px", bottom |-> "", zIndex |-> "10",
   transform |-> "", display |-> "flex", visibility |-> "visible",
   pointerEvents |-> "auto"]
PreStyles == {NoInlineStyle, AuthorInlineStyle}

\* String(ZOOM_FACTOR); part_005: (1/1.5).toString()
ZoomOf(v) ==
  CASE v \in {"contentScript", "part_003"} -> "0.8"
    [] v = "part_005"                      -> "0.6666666666666666"
    [] OTHER                               -> zoom

\* scrollTo / scrollBy clamp the offset to the scrollable range of the page.
ScrollTo(y) == Max(0, Min(y, Max(0, totalHeight - viewportHeight)))

\* contentScript.js: headers get display:none, visually fixed elements are
\* forced into the normal flow.
SuppressCS(el, st) ==
  IF el = "header"
  THEN [st EXCEPT !.display = "none"]
  ELSE [st EXCEPT !.position = "static", !.top = "auto", !.bottom = "auto",
                  !.zIndex = "auto", !.transform = "none"]

\* part_001 / part_003: fixed and sticky elements are made invisible.
SuppressFixed(el, st) ==
  [st EXCEPT !.visibility = "hidden", !.pointerEvents = "none"]

Suppress(v, el, st) ==
  IF v = "contentScript" THEN SuppressCS(el, st) ELSE SuppressFixed(el, st)

\* contentScript.js: s.position = b.inline.position || '' ... for each backup.
RestoreCS(st, b) ==
  [st EXCEPT !.position = b.position, !.top = b.top, !.bottom = b.bottom,
             !.zIndex = b.zIndex, !.transform = b.transform,
             !.display = b.display]

\* part_001 / part_003: fixedCache.forEach(...) restores the two properties.
RestoreFixed(st, b) ==
  [st EXCEPT !.visibility = b.visibility, !.pointerEvents = b.pointerEvents]

RestoreStyles(v, sty, backups) ==
  [el \in DOMAIN sty |->
     IF el \in DOMAIN backups
     THEN IF v = "contentScript" THEN RestoreCS(sty[el], backups[el])
          ELSE RestoreFixed(sty[el], backups[el])
     ELSE sty[el]]

\* The positions each variant plans for the measured page.
PlanOf(v, H, V) ==
  CASE v \in {"contentScript", "part_003"} -> PositionsCS(0, H, V, <<>>)
    [] v = "part_001"                      -> Positions001(0, H, V, <<>>)
    [] OTHER                               -> PositionsPreScroll(0, H, V, <<>>)

\* The least time between scrolling to a position and calling safeCapture.
SettleMs(v, kind) ==
  CASE v = "contentScript" -> CAPTURE_DELAY_MS + CAPTURE_POST_SCROLL_WAIT
    [] v = "part_001"      -> CAPTURE_DELAY_MS_550
    [] v = "part_003"      ->
         STABILITY_STABLE_CHECKS * STABILITY_STABLE_DELAY
           + STABILITY_EXTRA_PAUSE + (IF kind = "main" THEN 0 ELSE NUDGE_PAUSE)
    [] OTHER               -> RAF_SETTLE_WAIT

\* imagesIdentical: equal data URLs are identical; the pictures of Contents
\* differ by more than DUPLICATE_PIXEL_TOL at a sampled pixel.
ImagesIdentical(a, b) == a # "" /\ b # "" /\ a = b

\* alert('Capture failed: ' + err.message)
FailureAlert(msg) == <<"Capture failed: ">> \o msg

InitSession ==
  /\ NewIdle
  /\ variant \in SessVariants
  /\ bgKind = "single"
  /\ GateFresh
  /\ totalHeight \in 1..MaxSessHeight
  /\ viewportHeight \in SessViewports
  /\ positions = <<>>
  /\ planner = "none"
  /\ sessPc = "idle"
  /\ scrollTop \in {0, ScrollTo(1)}
  /\ overflow \in {"", "scroll"}
  /\ zoom \in {"", "1.25"}
  /\ style \in [Els -> PreStyles]
  /\ saved = <<>>
  /\ pre = <<>>
  /\ styleBackups = <<>>
  /\ posIdx = 0
  /\ capturedDataUrls = <<>>
  /\ prevDataUrl = ""
  /\ nudgeAttempts = 0
  /\ capKind = "none"
  /\ alerts = <<>>
  /\ downloads = 0
  /\ outcome = "none"
  /\ EncIdle
  /\ LoopIdle
  /\ WaitIdle

sessRest == <<domVars, saved, pre, styleBackups, posIdx, capturedDataUrls,
              prevDataUrl, nudgeAttempts, capKind, alerts, downloads, outcome>>

\* The start-capture message arrives: startCapture records the originals
\* and (all but part_001) applies the capture zoom.
SessStart ==
  /\ sessPc = "idle"
  /\ saved' = [overflow |-> overflow, scrollTop |-> scrollTop, zoom |-> zoom]
  /\ pre' = [scrollTop |-> scrollTop, overflow |-> overflow, zoom |-> zoom,
             style |-> style]
  /\ zoom' = ZoomOf(variant)
  /\ sessPc' = "prepare"
  /\ UNCHANGED <<scrollTop, overflow, style, styleBackups, posIdx,
                 capturedDataUrls, prevDataUrl, nudgeAttempts, capKind,
                 alerts, downloads, outcome, planVars, gateVars>>

\* contentScript.js detectHeadersAndFixed: scrollBy(0, 120), scrollBy(0, -120).
SessDetect ==
  /\ sessPc = "prepare"
  /\ variant = "contentScript"
  /\ scrollTop' = ScrollTo(ScrollTo(scrollTop + SMALL_SCROLL) - SMALL_SCROLL)
  /\ sessPc' = "suppress"
  /\ UNCHANGED <<overflow, zoom, style, saved, pre, styleBackups, posIdx,
                 capturedDataUrls, prevDataUrl, nudgeAttempts, capKind,
                 alerts, downloads, outcome, planVars, gateVars>>

\* Back up and suppress the elements, hide the overflow, plan the positions
\* and scroll to the first one.
SessSuppress ==
  /\ \/ variant = "contentScript" /\ sessPc = "suppress"
     \/ variant \in {"part_001", "part_003"} /\ sessPc = "prepare"
  /\ styleBackups' = style
  /\ style' = [el \in Els |-> Suppress(variant, el, style[el])]
  /\ overflow' = "hidden"
  /\ positions' = PlanOf(variant, totalHeight, viewportHeight)
  /\ planner' = variant
  /\ posIdx' = 1
  /\ capKind' = "main"
  /\ scrollTop' = ScrollTo(positions'[1])
  /\ sessPc' = "settle"
  /\ UNCHANGED <<zoom, saved, pre, capturedDataUrls, prevDataUrl,
                 nudgeAttempts, alerts, downloads, outcome, totalHeight,
                 viewportHeight, gateVars>>

\* part_005 preScrollAndStabilize on a page of constant height: the overflow
\* is hidden and put back, the scroll offset returns to origTop, and the
\* positions are planned; startCapture then scrolls to the first one.
SessPreScroll ==
  /\ variant = "part_005"
  /\ sessPc = "prepare"
  /\ positions' = PlanOf(variant, totalHeight, viewportHeight)
  /\ planner' = variant
  /\ posIdx' = 1
  /\ capKind' = "main"
  /\ scrollTop' = ScrollTo(positions'[1])
  /\ sessPc' = "settle"
  /\ UNCHANGED <<overflow, zoom, style, saved, pre, styleBackups,
                 capturedDataUrls, prevDataUrl, nudgeAttempts, alerts,
                 downloads, outcome, totalHeight, viewportHeight, gateVars>>

\* The settle wait after a scroll (contentScript.js re-applies the forced
\* styles, which leaves them as they are).
SessSettle ==
  /\ sessPc = "settle"
  /\ GateWork(SettleMs(variant, capKind))
  /\ sessPc' = "call"
  /\ UNCHANGED <<sessRest, planVars>>

\* const dataUrl = await safeCapture();
SessCallCapture ==
  /\ sessPc = "call"
  /\ GateCall
  /\ sessPc' = "capture"
  /\ UNCHANGED <<sessRest, planVars>>

\* The restoration after the capture loop (part_005 restores in `finally`).
RestoreAfterLoop ==
  /\ scrollTop' = IF variant = "part_005" THEN scrollTop
                  ELSE ScrollTo(saved.scrollTop)
  /\ overflow' = IF variant = "part_005" THEN overflow ELSE saved.overflow
  /\ zoom' = IF variant \in {"contentScript", "part_003"} THEN saved.zoom
             ELSE zoom
  /\ style' = IF variant = "part_005" THEN style
              ELSE RestoreStyles(variant, style, styleBackups)

\* for-loop step: the next position, or the end of the loop.
Advance ==
  IF posIdx < Len(positions)
  THEN /\ posIdx' = posIdx + 1
       /\ scrollTop' = ScrollTo(positions[posIdx + 1])
       /\ sessPc' = "settle"
       /\ UNCHANGED <<overflow, zoom, style>>
  ELSE /\ RestoreAfterLoop
       /\ sessPc' = "stitch"
       /\ UNCHANGED posIdx

\* safeCapture returned: capturedDataUrls.push(dataUrl).
SessTile ==
  /\ sessPc = "capture"
  /\ variant # "part_003"
  /\ gatePc = "returned"
  /\ GateResume
  /\ capturedDataUrls' = Append(capturedDataUrls, lastResp.dataUrl)
  /\ Advance
  /\ UNCHANGED <<saved, pre, styleBackups, prevDataUrl, nudgeAttempts,
                 capKind, alerts, downloads, outcome, planVars>>

\* part_003: duplicate detection with up to two nudges, then accept or skip.
SessTile003 ==
  /\ sessPc = "capture"
  /\ variant = "part_003"
  /\ gatePc = "returned"
  /\ GateResume
  /\ LET dataUrl == lastResp.dataUrl
         identical == ImagesIdentical(prevDataUrl, dataUrl)
     IN  IF identical /\ capKind \in {"main", "up"}
            /\ nudgeAttempts < MAX_NUDGES
         THEN /\ nudgeAttempts' = nudgeAttempts + 1
              /\ scrollTop' = ScrollTo(scrollTop + 1)
              /\ capKind' = "down"
              /\ sessPc' = "settle"
              /\ UNCHANGED <<overflow, zoom, style, posIdx,
                             capturedDataUrls, prevDataUrl>>
         ELSE IF identical /\ capKind = "down"
         THEN /\ scrollTop' = ScrollTo(scrollTop - 1)
              /\ capKind' = "up"
              /\ sessPc' = "settle"
              /\ UNCHANGED <<overflow, zoom, style, posIdx, nudgeAttempts,
                             capturedDataUrls, prevDataUrl>>
         ELSE /\ IF identical
                 THEN UNCHANGED <<capturedDataUrls, prevDataUrl>>
                 ELSE /\ capturedDataUrls' = Append(capturedDataUrls, dataUrl)
                      /\ prevDataUrl' = dataUrl
              /\ nudgeAttempts' = 0
              /\ capKind' = "main"
              /\ Advance
  /\ UNCHANGED <<saved, pre, styleBackups, alerts, downloads, outcome,
                 planVars>>

\* safeCapture threw.  contentScript.js: the catch block restores and
\* alerts; part_003: the catch block restores zoom and overflow and
\* rethrows; part_005: `finally` restores; part_001: nothing is restored.
\* A rejected startCapture is reported by the listener's catch.
SessCaptureFailed ==
  /\ sessPc = "capture"
  /\ gatePc = "thrown"
  /\ GateResume
  /\ zoom' = IF variant = "part_001" THEN zoom ELSE saved.zoom
  /\ overflow' = IF variant = "part_001" THEN overflow ELSE saved.overflow
  /\ scrollTop' = IF variant \in {"contentScript", "part_005"}
                  THEN ScrollTo(saved.scrollTop) ELSE scrollTop
  /\ style' = IF variant = "contentScript"
              THEN RestoreStyles(variant, style, styleBackups) ELSE style
  /\ alerts' = Append(alerts, FailureAlert(thrownMsg))
  /\ outcome' = IF variant = "contentScript" THEN "caught" ELSE "rejected"
  /\ sessPc' = "done"
  /\ UNCHANGED <<saved, pre, styleBackups, posIdx, capturedDataUrls,
                 prevDataUrl, nudgeAttempts, capKind, downloads, planVars>>

\* Stitching and encoding yield n artifacts, each handed to downloadBlob;
\* then the success alert (part_005: then `finally` restores).
SessStitch(n) ==
  /\ sessPc = "stitch"
  /\ downloads' = n
  /\ alerts' = Append(alerts, <<"Saved">>)
  /\ IF variant = "part_005"
     THEN /\ overflow' = saved.overflow
          /\ scrollTop' = ScrollTo(saved.scrollTop)
          /\ zoom' = saved.zoom
          /\ UNCHANGED style
     ELSE UNCHANGED domVars
  /\ outcome' = "saved"
  /\ sessPc' = "done"
  /\ UNCHANGED <<saved, pre, styleBackups, posIdx, capturedDataUrls,
                 prevDataUrl, nudgeAttempts, capKind, planVars, gateVars>>

NextSession ==
  \/ SessStart /\ UNCHANGED offSess
  \/ SessDetect /\ UNCHANGED offSess
  \/ SessSuppress /\ UNCHANGED offSess
  \/ SessPreScroll /\ UNCHANGED offSess
  \/ SessSettle /\ UNCHANGED offSess
  \/ SessCallCapture /\ UNCHANGED offSess
  \/ GateThrottleDone(0) /\ UNCHANGED offGate
  \/ GateSend /\ UNCHANGED offGate
  \/ (\E res \in Responses : GateResponse(res, 0))
       /\ UNCHANGED offGate
  \/ GateBackoffDone(0) /\ UNCHANGED offGate
  \/ SessTile /\ UNCHANGED offSess
  \/ SessTile003 /\ UNCHANGED offSess
  \/ SessCaptureFailed /\ UNCHANGED offSess
  \/ (\E n \in 1..MaxParts : SessStitch(n)) /\ UNCHANGED offSess

SpecSession == InitSession /\ [][NextSession]_vars

\* C2 (as stated): once a session has ended, by success or by a throw of
\* safeCapture, the scroll offset, the inline overflow, the zoom and the
\* inline styles of the suppressed elements equal their pre-session values.
C2_RestoredAfterSession ==
  sessPc = "done" =>
    /\ scrollTop = pre.scrollTop
    /\ overflow = pre.overflow
    /\ zoom = pre.zoom
    /\ style = pre.style

MaxEncTiles == 3

MAX_BYTES_19MB == 19 * 1024 * 1024
MAX_BYTES_20MB == 20 * 1024 * 1024

EncVariants == {"contentScript", "part_001", "part_003", "part_005"}

\* MAX_BYTES of each variant.
MaxBytes(e) == IF e = "part_001" THEN MAX_BYTES_20MB ELSE MAX_BYTES_19MB

\* The sizes an encoded blob can have: just within the budget, or over it.
Sizes(e) == {MaxBytes(e), MaxBytes(e) + 1}

\* blob.size < MAX_BYTES: a blob of exactly MAX_BYTES is rejected.
Fits_Strict(e, sz) == sz < MaxBytes(e)

\* blob.size <= MAX_BYTES
Fits(e, sz) == sz <= MaxBytes(e)

\* The tiles s .. e in order.
Range(s, e) == [k \in 1..(e - s + 1) |-> s + k - 1]

\* sz is the size of the blob that encodes `items` in format fmt.
Known(memo, fmt, items, sz) ==
  \A r \in memo : (r.fmt = fmt /\ r.items = items) => r.size = sz
Put(memo, fmt, items, sz) ==
  memo \cup {[fmt |-> fmt, items |-> items, size |-> sz]}

Artifact(items, sz, flagged) ==
  [items |-> items, size |-> sz, flagged |-> flagged]

InitEncode ==
  /\ NewIdle
  /\ encoder \in EncVariants
  /\ encPc = IF encoder = "part_001" THEN "batch" ELSE "ladder"
  /\ imageCount \in 1..MaxEncTiles
  /\ sizeOf = {}
  /\ currentBatch = <<>>
  /\ batchStart = 0
  /\ encI = 0
  /\ batches = <<>>
  /\ artifacts = <<>>
  /\ GateIdle
  /\ PlanIdle
  /\ SessIdle
  /\ LoopIdle
  /\ WaitIdle

\* contentScript.js / part_003: PNG, then WebP at the primary quality, then
\* WebP at the fallback quality, of the whole composite; the first that fits
\* is saved, otherwise the tiles are split into batches.
EncLadder ==
  /\ encPc = "ladder"
  /\ encoder \in {"contentScript", "part_003"}
  /\ LET all == Range(0, imageCount - 1)
     IN  \E png \in Sizes(encoder) :
           /\ Known(sizeOf, "png", all, png)
           /\ IF Fits(encoder, png)
              THEN /\ artifacts' = <<Artifact(all, png, FALSE)>>
                   /\ sizeOf' = Put(sizeOf, "png", all, png)
                   /\ encPc' = "done"
              ELSE \E w1 \in Sizes(encoder) :
                     IF Fits(encoder, w1)
                     THEN /\ artifacts' = <<Artifact(all, w1, FALSE)>>
                          /\ sizeOf' = Put(Put(sizeOf, "png", all, png),
                                           "webp", all, w1)
                          /\ encPc' = "done"
                     ELSE \E w2 \in Sizes(encoder) :
                            /\ sizeOf' =
                                 Put(Put(Put(sizeOf, "png", all, png),
                                         "webp", all, w1),
                                     "webpFallback", all, w2)
                            /\ IF Fits(encoder, w2)
                               THEN /\ artifacts' = <<Artifact(all, w2, FALSE)>>
                                    /\ encPc' = "done"
                               ELSE /\ artifacts' = artifacts
                                    /\ encPc' = "batch"
  /\ UNCHANGED <<encoder, imageCount, currentBatch, batchStart, encI, batches>>

\* contentScript.js step 13, one iteration: grow currentBatch while the
\* WebP of tryBatch fits; otherwise close it and test the candidate alone.
EncBatchStepCS ==
  /\ encPc = "batch"
  /\ encoder = "contentScript"
  /\ encI < imageCount
  /\ LET candidate == encI
         tryBatch == Append(currentBatch, candidate)
     IN  \E testSize \in Sizes(encoder), curSize \in Sizes(encoder),
            singleSize \in Sizes(encoder) :
           /\ Known(sizeOf, "webp", tryBatch, testSize)
           /\ IF Fits(encoder, testSize)
              THEN /\ curSize = testSize
                   /\ singleSize = testSize
                   /\ currentBatch' = tryBatch
                   /\ sizeOf' = Put(sizeOf, "webp", tryBatch, testSize)
                   /\ UNCHANGED batches
              ELSE LET m1 == Put(sizeOf, "webp", tryBatch, testSize)
                       closed ==
                         IF Len(currentBatch) > 0
                         THEN Append(batches, [items |-> currentBatch,
                                               size |-> curSize])
                         ELSE batches
                   IN  /\ IF Len(currentBatch) > 0
                          THEN Known(m1, "webp", currentBatch, curSize)
                          ELSE curSize = testSize
                       /\ Known(m1, "webp", <<candidate>>, singleSize)
                       /\ sizeOf' = Put(IF Len(currentBatch) > 0
                                        THEN Put(m1, "webp", currentBatch,
                                                 curSize)
                                        ELSE m1,
                                        "webp", <<candidate>>, singleSize)
                       /\ IF ~Fits(encoder, singleSize)
                          THEN /\ batches' =
                                    Append(closed, [items |-> <<candidate>>,
                                                    size |-> singleSize])
                               /\ currentBatch' = <<>>
                          ELSE /\ batches' = closed
                               /\ currentBatch' = <<candidate>>
  /\ encI' = encI + 1
  /\ UNCHANGED <<encoder, encPc, imageCount, batchStart, artifacts>>

\* contentScript.js: the batch left open after the loop is closed.
EncBatchEndCS ==
  /\ encPc = "batch"
  /\ encoder = "contentScript"
  /\ encI = imageCount
  /\ \E curSize \in Sizes(encoder) :
       /\ Known(sizeOf, "webp", currentBatch, curSize)
       /\ IF Len(currentBatch) > 0
          THEN /\ batches' = Append(batches, [items |-> currentBatch,
                                              size |-> curSize])
               /\ sizeOf' = Put(sizeOf, "webp", currentBatch, curSize)
          ELSE /\ curSize = MaxBytes(encoder)
               /\ UNCHANGED <<batches, sizeOf>>
  /\ encPc' = "save"
  /\ encI' = 0
  /\ UNCHANGED <<encoder, imageCount, currentBatch, batchStart, artifacts>>

\* contentScript.js step 14, one batch: save the primary blob if it fits,
\* else the fallback blob, with a console.warn when that is too large too.
EncSaveCS ==
  /\ encPc = "save"
  /\ encoder = "contentScript"
  /\ encI < Len(batches)
  /\ LET b == batches[encI + 1]
     IN  IF Fits(encoder, b.size)
         THEN /\ artifacts' = Append(artifacts, Artifact(b.items, b.size, FALSE))
              /\ UNCHANGED sizeOf
         ELSE \E bf \in Sizes(encoder) :
                /\ Known(sizeOf, "webpFallback", b.items, bf)
                /\ sizeOf' = Put(sizeOf, "webpFallback", b.items, bf)
                /\ artifacts' =
                     Append(artifacts,
                            Artifact(b.items, bf, ~Fits(encoder, bf)))
  /\ encI' = encI + 1
  /\ UNCHANGED <<encoder, encPc, imageCount, currentBatch, batchStart, batches>>

\* The save loop is over: the final alert.
EncSaveEnd ==
  /\ encPc = "save"
  /\ encoder \in {"contentScript", "part_003"}
  /\ encI = Len(batches)
  /\ encPc' = "done"
  /\ UNCHANGED <<encoder, imageCount, sizeOf, currentBatch, batchStart, encI,
                 batches, artifacts>>

\* part_001, one iteration: grow currentBatch while the PNG of tryBatch
\* fits; a lone oversized candidate is downscaled once; otherwise the open
\* batch is finalized and the candidate starts the next one.
EncBatchStep001 ==
  /\ encPc = "batch"
  /\ encoder = "part_001"
  /\ encI < imageCount
  /\ LET candidate == encI
         tryBatch == Append(currentBatch, candidate)
     IN  \E testSize \in Sizes(encoder), other \in Sizes(encoder) :
           /\ Known(sizeOf, "png", tryBatch, testSize)
           /\ LET m1 == Put(sizeOf, "png", tryBatch, testSize)
              IN  IF Fits(encoder, testSize)
                  THEN /\ other = testSize
                       /\ currentBatch' = tryBatch
                       /\ sizeOf' = m1
                       /\ UNCHANGED batches
                  ELSE IF Len(currentBatch) = 0
                  THEN /\ Known(m1, "scaled", <<candidate>>, other)
                       /\ sizeOf' = Put(m1, "scaled", <<candidate>>, other)
                       /\ batches' =
                            IF Fits(encoder, other)
                            THEN Append(batches,
                                        Artifact(<<candidate>>, other, FALSE))
                            ELSE Append(batches,
                                        Artifact(<<candidate>>, testSize, TRUE))
                       /\ currentBatch' = <<>>
                  ELSE /\ Known(m1, "png", currentBatch, other)
                       /\ sizeOf' = Put(m1, "png", currentBatch, other)
                       /\ batches' =
                            Append(batches, Artifact(currentBatch, other, FALSE))
                       /\ currentBatch' = <<candidate>>
  /\ encI' = encI + 1
  /\ UNCHANGED <<encoder, encPc, imageCount, batchStart, artifacts>>

\* part_001: the remaining batch is finalized and every batch downloaded.
EncBatchEnd001 ==
  /\ encPc = "batch"
  /\ encoder = "part_001"
  /\ encI = imageCount
  /\ \E sz \in Sizes(encoder) :
       /\ Known(sizeOf, "png", currentBatch, sz)
       /\ IF Len(currentBatch) > 0
          THEN /\ batches' = Append(batches, Artifact(currentBatch, sz, FALSE))
               /\ sizeOf' = Put(sizeOf, "png", currentBatch, sz)
          ELSE /\ sz = MaxBytes(encoder)
               /\ UNCHANGED <<batches, sizeOf>>
  /\ artifacts' = batches'
  /\ encPc' = "done"
  /\ UNCHANGED <<encoder, imageCount, currentBatch, batchStart, encI>>

\* part_003 range batching, one iteration.
EncRangeStep003 ==
  /\ encPc = "batch"
  /\ encoder = "part_003"
  /\ encI < imageCount
  /\ \E testSize \in Sizes(encoder) :
       /\ Known(sizeOf, "webp", Range(batchStart, encI), testSize)
       /\ sizeOf' = Put(sizeOf, "webp", Range(batchStart, encI), testSize)
       /\ IF Fits(encoder, testSize)
          THEN /\ batches' = IF encI = imageCount - 1
                             THEN Append(batches, [s |-> batchStart, e |-> encI])
                             ELSE batches
               /\ UNCHANGED batchStart
          ELSE IF encI - 1 >= batchStart
          THEN /\ batches' = Append(batches, [s |-> batchStart, e |-> encI - 1])
               /\ batchStart' = encI
          ELSE /\ batches' = Append(batches, [s |-> encI, e |-> encI])
               /\ batchStart' = encI + 1
  /\ encI' = encI + 1
  /\ UNCHANGED <<encoder, encPc, imageCount, currentBatch, artifacts>>

\* part_003: the batching loop is over; the save loop starts.
EncRangeEnd003 ==
  /\ encPc = "batch"
  /\ encoder = "part_003"
  /\ encI = imageCount
  /\ encPc' = "save"
  /\ encI' = 0
  /\ UNCHANGED <<encoder, imageCount, sizeOf, currentBatch, batchStart,
                 batches, artifacts>>

\* part_003 save loop, one batch: primary, then fallback, then the fallback
\* anyway with a console.warn.
EncSave003 ==
  /\ encPc = "save"
  /\ encoder = "part_003"
  /\ encI < Len(batches)
  /\ LET items == Range(batches[encI + 1].s, batches[encI + 1].e)
     IN  \E bp \in Sizes(encoder), bf \in Sizes(encoder) :
           /\ Known(sizeOf, "webp", items, bp)
           /\ IF Fits(encoder, bp)
              THEN /\ bf = bp
                   /\ sizeOf' = Put(sizeOf, "webp", items, bp)
                   /\ artifacts' = Append(artifacts, Artifact(items, bp, FALSE))
              ELSE /\ Known(sizeOf, "webpFallback", items, bf)
                   /\ sizeOf' = Put(Put(sizeOf, "webp", items, bp),
                                    "webpFallback", items, bf)
                   /\ artifacts' =
                        Append(artifacts,
                               Artifact(items, bf, ~Fits(encoder, bf)))
  /\ encI' = encI + 1
  /\ UNCHANGED <<encoder, encPc, imageCount, currentBatch, batchStart, batches>>

\* part_005 stitchAndExportBlobs of a composite within SAFE_CANVAS_HEIGHT:
\* the PNG if it fits, else the WebP whatever its size.
ExportKnown(memo, e, items, png, webp) ==
  /\ Known(memo, "png", items, png)
  /\ IF Fits(e, png) THEN webp = png ELSE Known(memo, "webp", items, webp)
ExportPut(memo, e, items, png, webp) ==
  IF Fits(e, png) THEN Put(memo, "png", items, png)
  ELSE Put(Put(memo, "png", items, png), "webp", items, webp)
ExportSize(e, png, webp) == IF Fits(e, png) THEN png ELSE webp

\* part_005 startCapture: a single stitched file that fits is downloaded;
\* otherwise splitIntoSizedWebPs is called.
EncExport005 ==
  /\ encPc = "ladder"
  /\ encoder = "part_005"
  /\ LET all == Range(0, imageCount - 1)
     IN  \E png \in Sizes(encoder), webp \in Sizes(encoder) :
           /\ ExportKnown(sizeOf, encoder, all, png, webp)
           /\ sizeOf' = ExportPut(sizeOf, encoder, all, png, webp)
           /\ IF Fits(encoder, ExportSize(encoder, png, webp))
              THEN /\ artifacts' =
                        <<Artifact(all, ExportSize(encoder, png, webp), FALSE)>>
                   /\ encPc' = "done"
              ELSE /\ encPc' = "batch"
                   /\ UNCHANGED artifacts
  /\ UNCHANGED <<encoder, imageCount, currentBatch, batchStart, encI, batches>>

\* part_005 splitIntoSizedWebPs, one iteration.
EncSplitStep005 ==
  /\ encPc = "batch"
  /\ encoder = "part_005"
  /\ encI < imageCount
  /\ LET candidate == encI
         batch == Append(currentBatch, candidate)
     IN  \E png \in Sizes(encoder), webp \in Sizes(encoder),
            png2 \in Sizes(encoder), webp2 \in Sizes(encoder) :
           /\ ExportKnown(sizeOf, encoder, batch, png, webp)
           /\ LET m1 == ExportPut(sizeOf, encoder, batch, png, webp)
              IN  IF Fits(encoder, ExportSize(encoder, png, webp))
                  THEN /\ png2 = png
                       /\ webp2 = webp
                       /\ currentBatch' = batch
                       /\ sizeOf' = m1
                       /\ UNCHANGED batches
                  ELSE IF Len(currentBatch) = 0
                  THEN /\ webp2 = png2
                       /\ Known(m1, "scaled", <<candidate>>, png2)
                       /\ sizeOf' = Put(m1, "scaled", <<candidate>>, png2)
                       /\ batches' =
                            Append(batches,
                                   Artifact(<<candidate>>, png2, FALSE))
                       /\ UNCHANGED currentBatch
                  ELSE /\ ExportKnown(m1, encoder, currentBatch, png2, webp2)
                       /\ sizeOf' =
                            ExportPut(m1, encoder, currentBatch, png2, webp2)
                       /\ batches' =
                            Append(batches,
                                   Artifact(currentBatch,
                                            ExportSize(encoder, png2, webp2),
                                            FALSE))
                       /\ currentBatch' = <<candidate>>
  /\ encI' = encI + 1
  /\ UNCHANGED <<encoder, encPc, imageCount, batchStart, artifacts>>

\* part_005: the remaining batch is exported; startCapture downloads every
\* part.
EncSplitEnd005 ==
  /\ encPc = "batch"
  /\ encoder = "part_005"
  /\ encI = imageCount
  /\ \E png \in Sizes(encoder), webp \in Sizes(encoder) :
       IF Len(currentBatch) > 0
       THEN /\ ExportKnown(sizeOf, encoder, currentBatch, png, webp)
            /\ sizeOf' = ExportPut(sizeOf, encoder, currentBatch, png, webp)
            /\ batches' =
                 Append(batches,
                        Artifact(currentBatch,
                                 ExportSize(encoder, png, webp), FALSE))
       ELSE /\ png = MaxBytes(encoder)
            /\ webp = png
            /\ UNCHANGED <<batches, sizeOf>>
  /\ artifacts' = batches'
  /\ encPc' = "done"
  /\ UNCHANGED <<encoder, imageCount, currentBatch, batchStart, encI>>

NextEncode ==
  \/ EncLadder /\ UNCHANGED offEnc
  \/ EncBatchStepCS /\ UNCHANGED offEnc
  \/ EncBatchEndCS /\ UNCHANGED offEnc
  \/ EncSaveCS /\ UNCHANGED offEnc
  \/ EncSaveEnd /\ UNCHANGED offEnc
  \/ EncBatchStep001 /\ UNCHANGED offEnc
  \/ EncBatchEnd001 /\ UNCHANGED offEnc
  \/ EncRangeStep003 /\ UNCHANGED offEnc
  \/ EncRangeEnd003 /\ UNCHANGED offEnc
  \/ EncSave003 /\ UNCHANGED offEnc
  \/ EncExport005 /\ UNCHANGED offEnc
  \/ EncSplitStep005 /\ UNCHANGED offEnc
  \/ EncSplitEnd005 /\ UNCHANGED offEnc

SpecEncode == InitEncode /\ [][NextEncode]_vars

\* C3 (as stated): every blob handed to downloadBlob is within MAX_BYTES,
\* unless the code flags or logs it as an oversized last resort.
C3_SizeWithinBudget ==
  \A k \in 1..Len(artifacts) :
    artifacts[k].size <= MaxBytes(encoder) \/ artifacts[k].flagged

RECURSIVE ConcatItems(_)
ConcatItems(arts) ==
  IF arts = <<>> THEN <<>>
  ELSE arts[1].items \o ConcatItems(Tail(arts))

\* C7 (as stated): when encoding is over, the tiles of the emitted artifacts,
\* concatenated in order, are exactly the tiles 0 .. images.length - 1.
C7_BatchesReconstructTiles ==
  encPc = "done" => ConcatItems(artifacts) = Range(0, imageCount - 1)

(***************************************************************************)
(* Dynamic tile acquisition: the adaptive loop and final sweep of the      *)
(* merged contentScript.js variant, and the dynamic scrolling loop of      *)
(* part_004.  The page is seen through `remaining`, the distance from the  *)
(* scroll offset to the largest offset; it grows when the page loads more  *)
(* content.  safeCapture is one step here: it returns a picture or throws. *)
(***************************************************************************)
LoopViewport == 40
HeaderBandPx == 10
MaxRemaining == 100
GrowPx == 40

CFG_maxTiles == 120
CFG_phashNearDupe == 5
DYNAMIC_TILE_LIMIT == 50
MIN_STEP == 24
ADAPT_MIN_STEP == 16
ADAPT_TOLERANCE == 12
NEAR_BOTTOM_PX == 2

LoopVariants == {"merged", "part_004"}
Growths == {0, GrowPx}

\* The pictures a capture can show.
Pictures == {"black", "white", "text", "textShifted"}

\* computePHash: bit i is set when the i-th low-frequency DCT coefficient is
\* above the median.  An all-black picture has every coefficient 0, hence no
\* bit set (0n); a uniform bright picture has only its DC coefficient above.
PHash(p) ==
  CASE p = "black"       -> {}
    [] p = "white"       -> {0}
    [] p = "text"        -> {0, 1, 3, 5, 7, 9, 11}
    [] p = "textShifted" -> {0, 1, 3, 5, 7, 9, 12}

Hash(p) == [null |-> FALSE, bits |-> PHash(p)]

\* hamming(a, b): the number of 1 bits of a ^ b.
Hamming(a, b) == Cardinality((a.bits \ b.bits) \cup (b.bits \ a.bits))

\* The truth value JavaScript gives a hash: null and 0n are falsy.
Truthy(h) == ~h.null /\ h.bits # {}

\* The pictures of the last two collected tiles.
Push2(tail, p) == IF Len(tail) < 2 THEN Append(tail, p) ELSE <<tail[2], p>>

\* The hard cap each variant configures.
TileCap(v) == IF v = "merged" THEN CFG_maxTiles ELSE DYNAMIC_TILE_LIMIT

InitLoop ==
  /\ NewIdle
  /\ loopVariant \in LoopVariants
  /\ loopPc = "first"
  /\ tileCount = 0
  /\ tiles = 0
  /\ remaining \in {0, LoopViewport, MaxRemaining}
  /\ step = 0
  /\ lastHash = NullHash
  /\ acceptedTail = <<>>
  /\ GateIdle
  /\ PlanIdle
  /\ SessIdle
  /\ EncIdle
  /\ WaitIdle

\* The first tile (merged: with the header; then step is computed from the
\* header band hb).
LoopFirstTile(p, hb) ==
  /\ loopPc = "first"
  /\ tileCount' = 1
  /\ acceptedTail' = <<p>>
  /\ IF loopVariant = "merged"
     THEN /\ lastHash' = Hash(p)
          /\ tiles' = 1
          /\ step' = Max(MIN_STEP, LoopViewport - hb)
     ELSE /\ hb = 0
          /\ step' = LoopViewport
          /\ UNCHANGED <<lastHash, tiles>>
  /\ loopPc' = "loop"
  /\ UNCHANGED <<loopVariant, remaining>>

\* merged: the two `break`s at the top of the adaptive loop.
MergedLoopExit ==
  /\ loopPc = "loop"
  /\ loopVariant = "merged"
  /\ tiles >= CFG_maxTiles \/ remaining <= NEAR_BOTTOM_PX
  /\ loopPc' = "sweep"
  /\ UNCHANGED <<loopVariant, tileCount, tiles, remaining, step, lastHash,
                 acceptedTail>>

\* merged: one iteration of the adaptive loop.  The page grows by g while
\* the loop waits for it to settle.
MergedIter(p, g) ==
  /\ loopPc = "loop"
  /\ loopVariant = "merged"
  /\ ~(tiles >= CFG_maxTiles \/ remaining <= NEAR_BOTTOM_PX)
  /\ LET moved == Min(step, remaining)
         d == Abs(moved - step)
         h == Hash(p)
     IN  /\ remaining - moved + g <= MaxRemaining
         /\ remaining' = remaining - moved + g
         /\ step' = IF d > ADAPT_TOLERANCE /\ 4 * d > step
                    THEN Max(ADAPT_MIN_STEP, moved) ELSE step
         /\ IF Truthy(lastHash) /\ Hamming(h, lastHash) < CFG_phashNearDupe
            THEN /\ loopPc' = "sweep"
                 /\ UNCHANGED <<lastHash, tileCount, tiles, acceptedTail>>
            ELSE /\ lastHash' = h
                 /\ tileCount' = tileCount + 1
                 /\ tiles' = tiles + 1
                 /\ acceptedTail' = Push2(acceptedTail, p)
                 /\ loopPc' = "loop"
  /\ UNCHANGED loopVariant

\* merged: driveToBottom has returned; the final capture is pushed unless
\* it is a near-duplicate of the last tile.
MergedSweep(p) ==
  /\ loopPc = "sweep"
  /\ loopVariant = "merged"
  /\ remaining' = 0
  /\ IF ~Truthy(lastHash)
        \/ Hamming(Hash(p), lastHash) >= CFG_phashNearDupe
     THEN /\ tileCount' = tileCount + 1
          /\ acceptedTail' = Push2(acceptedTail, p)
     ELSE UNCHANGED <<tileCount, acceptedTail>>
  /\ loopPc' = "done"
  /\ UNCHANGED <<loopVariant, tiles, step, lastHash>>

\* part_004: one iteration of the dynamic scrolling loop.
DynIter(p, g) ==
  /\ loopPc = "loop"
  /\ loopVariant = "part_004"
  /\ LET moved == Min(step, remaining)
         isAtBottom == remaining - moved + g <= 0
     IN  /\ remaining - moved + g <= MaxRemaining
         /\ remaining' = remaining - moved + g
         /\ tileCount' = tileCount + 1
         /\ acceptedTail' = Push2(acceptedTail, p)
         /\ loopPc' = IF isAtBottom \/ tileCount + 1 > DYNAMIC_TILE_LIMIT
                      THEN "done" ELSE "loop"
  /\ UNCHANGED <<loopVariant, tiles, step, lastHash>>

\* safeCapture throws: the acquisition ends without a result.
LoopCaptureThrows ==
  /\ \/ loopPc \in {"first", "sweep"}
     \/ /\ loopPc = "loop"
        /\ loopVariant = "merged" =>
             ~(tiles >= CFG_maxTiles \/ remaining <= NEAR_BOTTOM_PX)
  /\ loopPc' = "failed"
  /\ UNCHANGED <<loopVariant, tileCount, tiles, remaining, step, lastHash,
                 acceptedTail>>

NextLoop ==
  \/ (\E p \in Pictures, hb \in {0, HeaderBandPx} : LoopFirstTile(p, hb))
       /\ UNCHANGED offLoop
  \/ MergedLoopExit /\ UNCHANGED offLoop
  \/ (\E p \in Pictures, g \in Growths : MergedIter(p, g)) /\ UNCHANGED offLoop
  \/ (\E p \in Pictures : MergedSweep(p)) /\ UNCHANGED offLoop
  \/ (\E p \in Pictures, g \in Growths : DynIter(p, g)) /\ UNCHANGED offLoop
  \/ LoopCaptureThrows /\ UNCHANGED offLoop

SpecLoop == InitLoop /\ [][NextLoop]_vars

\* C8 (as stated): in the loop with a duplicate guard, two tiles collected in
\* a row never show bit-identical pictures.
C8_NoIdenticalNeighbours ==
  (loopVariant = "merged" /\ Len(acceptedTail) = 2) =>
    acceptedTail[1] # acceptedTail[2]

\* C9 (as stated): the number of tiles collected never exceeds the cap the
\* variant configures (50 in part_004, CFG.maxTiles = 120 in merged).
C9_TileCap ==
  tileCount <= TileCap(loopVariant)

(***************************************************************************)
(* Waiting loops: waitForStableDOM and driveToBottom (merged variant),     *)
(* waitForScrollAndStability (part_003) and preScrollAndStabilize          *)
(* (part_005).  Each step is one timer callback; what the page did during  *)
(* the wait is the step's input.                                           *)
(***************************************************************************)
WaitViewport == 3
MaxGap == 6
SmallGrowPx == 50
BigGrowPx == 100

CFG_domStableWindowMs == 800
CFG_domStableTimeoutMs == 4000
DOM_TICK_MS == 100
CFG_bottomStableChecks == 6
HEIGHT_TOLERANCE == 80
STABILITY_TIMEOUT_MS == 2500
STABILITY_POLL_INTERVAL == 80
Y_TOL == 1
STABILIZE_ROUNDS == 2

WaitKinds == {"waitForStableDOM", "waitForScrollAndStability",
              "driveToBottom", "preScrollAndStabilize"}

InitWait ==
  /\ NewIdle
  /\ waitKind \in WaitKinds
  /\ waitPc = "running"
  /\ waitElapsed = 0
  /\ sinceMutation = 0
  /\ scrollDist \in IF waitKind = "waitForScrollAndStability"
                    THEN {0, Y_TOL + 1} ELSE {0}
  /\ stable = 0
  /\ heightDelta = 0
  /\ gap \in IF waitKind = "preScrollAndStabilize"
             THEN {1 - WaitViewport, 0, WaitViewport, 2 * WaitViewport}
             ELSE {0}
  /\ GateIdle
  /\ PlanIdle
  /\ SessIdle
  /\ EncIdle
  /\ LoopIdle

\* waitForStableDOM: `tick` runs 100 ms after the previous one; the
\* MutationObserver may have fired in between.
DomTick(mutated) ==
  /\ waitKind = "waitForStableDOM"
  /\ waitPc = "running"
  /\ waitElapsed' = waitElapsed + DOM_TICK_MS
  /\ sinceMutation' = IF mutated THEN 0
                      ELSE Min(sinceMutation + DOM_TICK_MS,
                               CFG_domStableWindowMs)
  /\ waitPc' = IF sinceMutation' >= CFG_domStableWindowMs
                  \/ waitElapsed' > CFG_domStableTimeoutMs
               THEN "done" ELSE "running"
  /\ UNCHANGED <<waitKind, scrollDist, stable, heightDelta, gap>>

\* waitForScrollAndStability, first loop: poll until the scroll offset is
\* within yTol of the target or the timeout has passed.
ScrollPoll(arrived) ==
  /\ waitKind = "waitForScrollAndStability"
  /\ waitPc = "running"
  /\ scrollDist > Y_TOL /\ waitElapsed < STABILITY_TIMEOUT_MS
  /\ waitElapsed' = waitElapsed + STABILITY_POLL_INTERVAL
  /\ scrollDist' = IF arrived THEN 0 ELSE scrollDist
  /\ UNCHANGED <<waitKind, waitPc, sinceMutation, stable, heightDelta, gap>>

\* waitForScrollAndStability: the first loop ends; lastH is read.
ScrollPollExit ==
  /\ waitKind = "waitForScrollAndStability"
  /\ waitPc = "running"
  /\ ~(scrollDist > Y_TOL /\ waitElapsed < STABILITY_TIMEOUT_MS)
  /\ waitPc' = "stabilizing"
  /\ UNCHANGED <<waitKind, waitElapsed, sinceMutation, scrollDist, stable,
                 heightDelta, gap>>

\* waitForScrollAndStability, second loop: count equal readings of
\* scrollHeight, 120 ms apart.
StabilityCheck(changed) ==
  /\ waitKind = "waitForScrollAndStability"
  /\ waitPc = "stabilizing"
  /\ stable < STABILITY_STABLE_CHECKS /\ waitElapsed < STABILITY_TIMEOUT_MS
  /\ waitElapsed' = waitElapsed + STABILITY_STABLE_DELAY
  /\ stable' = IF changed THEN 0 ELSE stable + 1
  /\ UNCHANGED <<waitKind, waitPc, sinceMutation, scrollDist, heightDelta, gap>>

\* waitForScrollAndStability: the second loop ends; the function returns
\* after its last pause.
StabilityExit ==
  /\ waitKind = "waitForScrollAndStability"
  /\ waitPc = "stabilizing"
  /\ ~(stable < STABILITY_STABLE_CHECKS /\ waitElapsed < STABILITY_TIMEOUT_MS)
  /\ waitPc' = "done"
  /\ UNCHANGED <<waitKind, waitElapsed, sinceMutation, scrollDist, stable,
                 heightDelta, gap>>

\* driveToBottom, one pass of `while (stable < CFG.bottomStableChecks)`:
\* the page grew by g since the previous reading.
BottomCheck(g) ==
  /\ waitKind = "driveToBottom"
  /\ waitPc = "running"
  /\ stable < CFG_bottomStableChecks
  /\ IF Abs(heightDelta + g) > HEIGHT_TOLERANCE
     THEN /\ heightDelta' = 0
          /\ stable' = 0
     ELSE /\ heightDelta' = heightDelta + g
          /\ stable' = stable + 1
  /\ UNCHANGED <<waitKind, waitPc, waitElapsed, sinceMutation, scrollDist, gap>>

\* driveToBottom: the loop ends; last scrollTo and return.
BottomExit ==
  /\ waitKind = "driveToBottom"
  /\ waitPc = "running"
  /\ ~(stable < CFG_bottomStableChecks)
  /\ waitPc' = "done"
  /\ UNCHANGED <<waitKind, waitElapsed, sinceMutation, scrollDist, stable,
                 heightDelta, gap>>

\* preScrollAndStabilize, one pass of `while (y < lastHeight - 1)`: scroll
\* one step down, wait, read the height (grown by g), count the passes
\* spent at the bottom.
PreScrollStep(g) ==
  /\ waitKind = "preScrollAndStabilize"
  /\ waitPc = "running"
  /\ gap + WaitViewport > 1
  /\ LET gap1 == gap - Min(WaitViewport, gap)
         gap2 == gap1 + g
         stable1 == IF g # 0 THEN 0 ELSE stable
         atBottom == gap2 <= 1
     IN  /\ gap2 <= MaxGap
         /\ gap' = gap2
         /\ stable' = IF atBottom THEN stable1 + 1 ELSE stable1
         /\ waitPc' = IF atBottom /\ stable1 + 1 >= STABILIZE_ROUNDS
                      THEN "done" ELSE "running"
  /\ UNCHANGED <<waitKind, waitElapsed, sinceMutation, scrollDist, heightDelta>>

\* preScrollAndStabilize: the loop condition fails; positions are planned
\* and the function returns.
PreScrollExit ==
  /\ waitKind = "preScrollAndStabilize"
  /\ waitPc = "running"
  /\ ~(gap + WaitViewport > 1)
  /\ waitPc' = "done"
  /\ UNCHANGED <<waitKind, waitElapsed, sinceMutation, scrollDist, stable,
                 heightDelta, gap>>

NextWait ==
  \/ (\E mutated \in BOOLEAN : DomTick(mutated)) /\ UNCHANGED offWait
  \/ (\E arrived \in BOOLEAN : ScrollPoll(arrived)) /\ UNCHANGED offWait
  \/ ScrollPollExit /\ UNCHANGED offWait
  \/ (\E changed \in BOOLEAN : StabilityCheck(changed)) /\ UNCHANGED offWait
  \/ StabilityExit /\ UNCHANGED offWait
  \/ (\E g \in {0, SmallGrowPx, BigGrowPx} : BottomCheck(g))
       /\ UNCHANGED offWait
  \/ BottomExit /\ UNCHANGED offWait
  \/ (\E g \in {0, WaitViewport} : PreScrollStep(g)) /\ UNCHANGED offWait
  \/ PreScrollExit /\ UNCHANGED offWait

SpecWait == InitWait /\ [][NextWait]_vars

\* Timer callbacks always run in the end: a waiting loop that can take a
\* step does take one.
FairSpecWait == SpecWait /\ WF_vars(NextWait)

\* C10 (as stated): every waiting loop returns, whatever the page does.
C10_WaitsTerminate == <>(waitPc = "done")

(***************************************************************************)
(* Planner states and actions.                                             *)
(***************************************************************************)
InitPlan ==
  /\ NewIdle
  /\ totalHeight \in 1..MaxTotalHeight
  /\ viewportHeight \in 1..MaxViewportHeight
  /\ positions = <<>>
  /\ planner = "none"
  /\ GateIdle
  /\ SessIdle
  /\ EncIdle
  /\ LoopIdle
  /\ WaitIdle

PlanContentScript ==
  /\ planner = "none"
  /\ positions' = PositionsCS(0, totalHeight, viewportHeight, <<>>)
  /\ planner' = "contentScript"
  /\ UNCHANGED <<totalHeight, viewportHeight, offPlan>>

PlanPart001 ==
  /\ planner = "none"
  /\ positions' = Positions001(0, totalHeight, viewportHeight, <<>>)
  /\ planner' = "part_001"
  /\ UNCHANGED <<totalHeight, viewportHeight, offPlan>>

PlanPart005 ==
  /\ planner = "none"
  /\ positions' = PositionsPreScroll(0, totalHeight, viewportHeight, <<>>)
  /\ planner' = "part_005"
  /\ UNCHANGED <<totalHeight, viewportHeight, offPlan>>

NextPlan == PlanContentScript \/ PlanPart001 \/ PlanPart005

SpecPlan == InitPlan /\ [][NextPlan]_vars

\* The union of [pos, pos + V) over the planned offsets covers [0, H).
Covers(ps, H, V) ==
  \A r \in 0..(H - 1) : \E i \in 1..Len(ps) : ps[i] <= r /\ r < ps[i] + V

\* C1 (as stated): every static plan covers [0, H) without a gap and its
\* last offset equals exactly H - V, for all positive H and V.
C1_CoverageLastIsHMinusV ==
  planner # "none" =>
    /\ Covers(positions, totalHeight, viewportHeight)
    /\ Last(positions) = totalHeight - viewportHeight

\* C1 (amended): every static plan covers [0, H) without a gap; when H >= V
\* its last offset equals exactly H - V; when H < V the plan is the single
\* offset 0 in contentScript.js and the single offset H - V in part_001 and
\* part_005.
C1_Coverage ==
  planner # "none" =>
    /\ Len(positions) >= 1
    /\ Covers(positions, totalHeight, viewportHeight)
    /\ (totalHeight >= viewportHeight =>
          Last(positions) = totalHeight - viewportHeight)
    /\ (totalHeight < viewportHeight =>
          positions = IF planner = "contentScript"
                      THEN <<0>>
                      ELSE <<totalHeight - viewportHeight>>)

\* A plan of at least three offsets whose last step is clamped to the bottom.
C1_Witness ==
  /\ planner = "part_001"
  /\ Len(positions) >= 3
  /\ totalHeight % viewportHeight # 0
  /\ Last(positions) = totalHeight - viewportHeight

\* ------------------------------------------------------------------------
\* Restoration on the exit paths of startCapture
\* ------------------------------------------------------------------------

RestoreVariants ==
  {"contentScript", "part_003b", "part_004a", "part_004b", "part_005"}

\* scroll:   scrollingEl.scrollTo({ top: originalScrollTop, ... })
\* overflow: scrollingEl.style.overflow = originalOverflow
\* zoom:     document.documentElement.style.zoom = originalZoom
\* freeze:   removeFreezeStyle()
\* styles:   the loop over styleBackups / restoreVisuals(elementsToRestore)
RestoreSteps == {"scroll", "overflow", "zoom", "freeze", "styles"}

\* One statement of a restoring block. try = 0: the statement stands outside
\* every try; statements with the same try > 0 share one try { } catch { }.
Stmt(s, t) == [step |-> s, try |-> t]

\* contentScript.js 243-259: restore before stitching, inside the outer try.
RestoreInlineCS ==
  <<Stmt("scroll", 0), Stmt("overflow", 0), Stmt("zoom", 0),
    Stmt("styles", 1)>>

\* contentScript.js 354-369: the catch block of startCapture.
RestoreCatchCS ==
  <<Stmt("zoom", 1), Stmt("overflow", 2), Stmt("scroll", 3),
    Stmt("styles", 4)>>

\* part_003 829-833: the finally block of the zoom-retrying startCapture.
RestoreFinally003 ==
  <<Stmt("overflow", 1), Stmt("scroll", 2), Stmt("zoom", 0)>>

\* part_004 276-288: scroll and overflow share one try, then
\* removeFreezeStyle().
RestoreFinally004a ==
  <<Stmt("scroll", 1), Stmt("overflow", 1), Stmt("freeze", 0)>>

\* part_004 702-714: the same with restoreVisuals(elementsToRestore).
RestoreFinally004b ==
  <<Stmt("scroll", 1), Stmt("overflow", 1), Stmt("styles", 0)>>

\* part_005 239-243: three bare statements.
RestoreFinally005 ==
  <<Stmt("overflow", 0), Stmt("scroll", 0), Stmt("zoom", 0)>>

RestoreBlock(v, blk) ==
  CASE v = "contentScript" ->
         IF blk = "main" THEN RestoreInlineCS ELSE RestoreCatchCS
    [] v = "part_003b" -> RestoreFinally003
    [] v = "part_004a" -> RestoreFinally004a
    [] v = "part_004b" -> RestoreFinally004b
    [] OTHER -> RestoreFinally005

\* The steps a variant has to undo.
StepsOf(v) == {RestoreBlock(v, "main")[i].step :
                 i \in 1..Len(RestoreBlock(v, "main"))}

\* part_003 (second variant) and part_005 download inside the try body, before
\* the finally block; contentScript.js and part_004 restore first and encode
\* afterwards.
EmitsBeforeRestore(v) == v \in {"part_003b", "part_005"}

\* The statement that runs after statement i threw inside try t: the first
\* one behind the end of that try.
AfterTry(block, i) ==
  IF \E j \in (i + 1)..Len(block) : block[j].try # block[i].try
  THEN CHOOSE j \in (i + 1)..Len(block) :
         /\ block[j].try # block[i].try
         /\ \A k \in (i + 1)..(j - 1) : block[k].try = block[i].try
  ELSE Len(block) + 1

InitRestore ==
  /\ OldIdle
  /\ LsnIdle
  /\ LadIdle
  /\ StIdle
  /\ OvIdle
  /\ HdrIdle
  /\ GrowIdle
  /\ StyIdle
  /\ ProbeIdle
  /\ BlobIdle
  /\ NoContentIdle
  /\ NameIdle
  /\ TeardownIdle
  /\ ZoomIdle
  /\ ReassertIdle
  /\ CompositeIdle
  /\ FindIdle
  /\ DupIdle
  /\ TwoIdle
  /\ ShortIdle
  /\ BackgroundIdle
  /\ BatchIdle
  /\ ViewerIdle
  /\ rVariant \in RestoreVariants
  /\ rThrows \in SUBSET StepsOf(rVariant)
  /\ rPc = "body"
  /\ rPath = "none"
  /\ rBlock = "none"
  /\ rIdx = 0
  /\ rLog = <<>>
  /\ rEmitted = FALSE
  /\ rReport = "none"

\* The work before the restoring block ends: every capture (and, where the
\* download comes first, every encode) succeeded, or one of them threw.
RestoreBodyEnds(ok) ==
  /\ rPc = "body"
  /\ rPc' = "restoring"
  /\ rPath' = IF ok THEN "success" ELSE "error"
  /\ rBlock' = IF rVariant = "contentScript" /\ ~ok THEN "catch" ELSE "main"
  /\ rIdx' = 1
  /\ rEmitted' = (ok /\ EmitsBeforeRestore(rVariant))
  /\ UNCHANGED <<rVariant, rThrows, rLog, rReport>>
  /\ UNCHANGED offRest

\* A restoration statement runs to its end.
RestoreStepOk ==
  /\ rPc = "restoring"
  /\ rIdx <= Len(RestoreBlock(rVariant, rBlock))
  /\ LET st == RestoreBlock(rVariant, rBlock)[rIdx] IN
       /\ st.step \notin rThrows
       /\ rLog' = Append(rLog, [step |-> st.step, ok |-> TRUE])
       /\ rIdx' = rIdx + 1
  /\ UNCHANGED <<rVariant, rPc, rPath, rBlock, rThrows, rEmitted, rReport>>
  /\ UNCHANGED offRest

\* A restoration statement throws inside a try of the restoring block: the
\* catch swallows it and the rest of that try is skipped.
RestoreStepSwallowed ==
  /\ rPc = "restoring"
  /\ rIdx <= Len(RestoreBlock(rVariant, rBlock))
  /\ LET block == RestoreBlock(rVariant, rBlock)
         st == block[rIdx] IN
       /\ st.step \in rThrows
       /\ st.try # 0
       /\ rLog' = Append(rLog, [step |-> st.step, ok |-> FALSE])
       /\ rIdx' = AfterTry(block, rIdx)
  /\ UNCHANGED <<rVariant, rPc, rPath, rBlock, rThrows, rEmitted, rReport>>
  /\ UNCHANGED offRest

\* A bare restoration statement throws. In contentScript.js 243-246 the
\* outer catch takes over; in a finally block the error leaves startCapture
\* and the listener's .catch shows "Capture failed".
RestoreStepEscapes ==
  /\ rPc = "restoring"
  /\ rIdx <= Len(RestoreBlock(rVariant, rBlock))
  /\ LET st == RestoreBlock(rVariant, rBlock)[rIdx] IN
       /\ st.step \in rThrows
       /\ st.try = 0
       /\ rLog' = Append(rLog, [step |-> st.step, ok |-> FALSE])
  /\ IF rVariant = "contentScript"
     THEN /\ rBlock' = "catch"
          /\ rIdx' = 1
          /\ UNCHANGED <<rPc, rReport>>
     ELSE /\ rPc' = "done"
          /\ rReport' = "failed"
          /\ UNCHANGED <<rBlock, rIdx>>
  /\ UNCHANGED <<rVariant, rPath, rThrows, rEmitted>>
  /\ UNCHANGED offRest

\* The restoring block is through. After a completed body and its own
\* restoring block the variants that encode afterwards emit the artifacts
\* now; after the catch block (contentScript.js 370-371) or a failed body
\* "Capture failed" is shown.
RestoreEnds ==
  /\ rPc = "restoring"
  /\ rIdx > Len(RestoreBlock(rVariant, rBlock))
  /\ rPc' = "done"
  /\ rEmitted' = (rEmitted \/ (rPath = "success" /\ rBlock = "main"))
  /\ rReport' = IF rPath = "success" /\ rBlock = "main"
                THEN "ok" ELSE "failed"
  /\ UNCHANGED <<rVariant, rPath, rBlock, rThrows, rIdx, rLog>>
  /\ UNCHANGED offRest

NextRestore ==
  \/ (\E ok \in BOOLEAN : RestoreBodyEnds(ok))
  \/ RestoreStepOk
  \/ RestoreStepSwallowed
  \/ RestoreStepEscapes
  \/ RestoreEnds

SpecRestore == InitRestore /\ [][NextRestore]_vars

\* The rank of a restoration step in the order scroll position, overflow
\* style, zoom/freeze, suppressor records.
RestoreRank(s) ==
  CASE s = "scroll" -> 1
    [] s = "overflow" -> 2
    [] s \in {"zoom", "freeze"} -> 3
    [] OTHER -> 4

\* C11: on every exit path the restoration steps run in the order scroll,
\* overflow, zoom/freeze, suppressor records, and every step of the variant
\* is executed even when another restoration step threw.
C11_RestoreOrderAndGuards ==
  rPc = "done" =>
    /\ \A i, j \in 1..Len(rLog) :
         i < j => RestoreRank(rLog[i].step) <= RestoreRank(rLog[j].step)
    /\ \A s \in StepsOf(rVariant) : \E i \in 1..Len(rLog) : rLog[i].step = s

\* C12: a restoration step that throws never changes the outcome: when every
\* capture and encode succeeded, the artifacts are emitted and no failure is
\* reported.
C12_RestoreFailureSwallowed ==
  (rPc = "done" /\ rPath = "success") =>
    (rEmitted /\ rReport = "ok")

\* ------------------------------------------------------------------------
\* start-capture listeners: how many sessions and requests run at once
\* ------------------------------------------------------------------------

MaxStarts == 3
MaxCapturesPerSession == 2

LsnVariants == {"contentScript", "merged"}

NewSession == [pc |-> "running", left |-> MaxCapturesPerSession]

\* Sessions that have not settled / requests that were sent and not answered.
Running == {i \in 1..Len(sessions) : sessions[i].pc \in {"running", "awaiting"}}
Outstanding == {i \in 1..Len(sessions) : sessions[i].pc = "awaiting"}

InitListen ==
  /\ OldIdle
  /\ RestIdle
  /\ LadIdle
  /\ StIdle
  /\ OvIdle
  /\ HdrIdle
  /\ GrowIdle
  /\ StyIdle
  /\ ProbeIdle
  /\ BlobIdle
  /\ NoContentIdle
  /\ NameIdle
  /\ TeardownIdle
  /\ ZoomIdle
  /\ ReassertIdle
  /\ CompositeIdle
  /\ FindIdle
  /\ DupIdle
  /\ TwoIdle
  /\ ShortIdle
  /\ BackgroundIdle
  /\ BatchIdle
  /\ ViewerIdle
  /\ lsnVariant \in LsnVariants
  /\ busy = FALSE
  /\ started = 0
  /\ sessions = <<>>

\* contentScript.js 28-35: every start-capture message calls startCapture().
StartCaptureFirst ==
  /\ lsnVariant = "contentScript"
  /\ started < MaxStarts
  /\ started' = started + 1
  /\ sessions' = Append(sessions, NewSession)
  /\ UNCHANGED <<lsnVariant, busy>>
  /\ UNCHANGED offLsn

\* The merged listener without `if (busy) return`.
StartCaptureMerged_NoGuard ==
  /\ lsnVariant = "merged"
  /\ started < MaxStarts
  /\ started' = started + 1
  /\ busy' = TRUE
  /\ sessions' = Append(sessions, NewSession)
  /\ UNCHANGED lsnVariant
  /\ UNCHANGED offLsn

\* contentScript.js 419-428: `if (busy) return; busy = true; startCapture()`.
StartCaptureMerged ==
  /\ lsnVariant = "merged"
  /\ started < MaxStarts
  /\ started' = started + 1
  /\ IF busy
     THEN UNCHANGED <<busy, sessions>>
     ELSE /\ busy' = TRUE
          /\ sessions' = Append(sessions, NewSession)
  /\ UNCHANGED lsnVariant
  /\ UNCHANGED offLsn

\* safeCapture: sendMessage({ action: 'capture-visible' }). The throttle
\* before it looks at lastCaptureTs only, which is written when a response
\* arrives, never at whether a request is in flight.
LsnSend(i) ==
  /\ i \in 1..Len(sessions)
  /\ sessions[i].pc = "running"
  /\ sessions[i].left > 0
  /\ sessions' = [sessions EXCEPT ![i].pc = "awaiting"]
  /\ UNCHANGED <<lsnVariant, busy, started>>
  /\ UNCHANGED offLsn

\* The response arrives. ok: the tile is collected; otherwise safeCapture
\* (after its last attempt) throws and startCapture settles;
\* .finally(() => { busy = false; }) in the merged listener.
LsnReceive(i, ok) ==
  /\ i \in 1..Len(sessions)
  /\ sessions[i].pc = "awaiting"
  /\ IF ok
     THEN /\ sessions' = [sessions EXCEPT ![i].pc = "running",
                                           ![i].left = @ - 1]
          /\ UNCHANGED busy
     ELSE /\ sessions' = [sessions EXCEPT ![i].pc = "done"]
          /\ busy' = IF lsnVariant = "merged" THEN FALSE ELSE busy
  /\ UNCHANGED <<lsnVariant, started>>
  /\ UNCHANGED offLsn

\* The session has collected its tiles, saves and settles.
LsnFinish(i) ==
  /\ i \in 1..Len(sessions)
  /\ sessions[i].pc = "running"
  /\ sessions[i].left = 0
  /\ sessions' = [sessions EXCEPT ![i].pc = "done"]
  /\ busy' = IF lsnVariant = "merged" THEN FALSE ELSE busy
  /\ UNCHANGED <<lsnVariant, started>>
  /\ UNCHANGED offLsn

NextListen ==
  \/ StartCaptureFirst
  \/ StartCaptureMerged
  \/ (\E i \in 1..MaxStarts : LsnSend(i))
  \/ (\E i \in 1..MaxStarts, ok \in BOOLEAN : LsnReceive(i, ok))
  \/ (\E i \in 1..MaxStarts : LsnFinish(i))

SpecListen == InitListen /\ [][NextListen]_vars

\* C13: at any time at most one capture-visible request is outstanding and
\* at most one capture session is running in the page, whatever the arrival
\* pattern of start-capture messages and whichever listener is registered.
C13_OneSessionOneRequest ==
  /\ Cardinality(Outstanding) <= 1
  /\ Cardinality(Running) <= 1

\* The merged listener alone keeps the bound (its busy flag).
C13_MergedOnly == lsnVariant = "merged" => C13_OneSessionOneRequest

\* ------------------------------------------------------------------------
\* Quality ladder of the encoder
\* ------------------------------------------------------------------------

MaxHeightBatches == 3
MaxTilesPerBatch == 2

\* Qualities in percent (0.97, 0.95, 0.92); canvas.toBlob ignores the quality
\* of image/png.
WEBP_QUALITY_PRIMARY == 97
WEBP_QUALITY_FALLBACK == 92
JPEG_QUALITY_HIGH == 97
JPEG_QUALITY == 95
WEBP_QUALITY_HIGH == 97
WEBP_QUALITY == 92
PNG_QUALITY == 92

LadVariants == {"contentScript", "part_003", "part_004", "part_005"}

Rung(mime, q) == [mime |-> mime, quality |-> q]
IsLossless(r) == r.mime = "image/png"

\* contentScript.js 285-307 and part_003 384-406.
LadderCS ==
  <<Rung("image/png", PNG_QUALITY), Rung("image/webp", WEBP_QUALITY_PRIMARY),
    Rung("image/webp", WEBP_QUALITY_FALLBACK)>>

\* part_004 313-344.
Ladder004 ==
  <<Rung("image/jpeg", JPEG_QUALITY_HIGH), Rung("image/jpeg", JPEG_QUALITY),
    Rung("image/webp", WEBP_QUALITY_HIGH),
    Rung("image/webp", WEBP_QUALITY_FALLBACK)>>

\* part_005 130-135.
Ladder005 ==
  <<Rung("image/png", PNG_QUALITY), Rung("image/webp", WEBP_QUALITY)>>

LadderOf(v) ==
  CASE v = "part_004" -> Ladder004
    [] v = "part_005" -> Ladder005
    [] OTHER -> LadderCS

\* All sequences of 1..MaxHeightBatches batches of 1..MaxTilesPerBatch tiles.
HeightBatchings ==
  UNION {[1..n -> 1..MaxTilesPerBatch] : n \in 1..MaxHeightBatches}

InitLadder ==
  /\ OldIdle
  /\ RestIdle
  /\ LsnIdle
  /\ StIdle
  /\ OvIdle
  /\ HdrIdle
  /\ GrowIdle
  /\ StyIdle
  /\ ProbeIdle
  /\ BlobIdle
  /\ NoContentIdle
  /\ NameIdle
  /\ TeardownIdle
  /\ ZoomIdle
  /\ ReassertIdle
  /\ CompositeIdle
  /\ FindIdle
  /\ DupIdle
  /\ TwoIdle
  /\ ShortIdle
  /\ BackgroundIdle
  /\ BatchIdle
  /\ ViewerIdle
  /\ ladVariant \in LadVariants
  /\ ladPc = "ladder"
  /\ heightBatches \in
       IF ladVariant = "part_004" THEN HeightBatchings ELSE {<<1>>}
  /\ ladB = 1
  /\ ladTried = <<>>
  /\ ladOut = <<>>

\* The next encode of the ladder; the blob fits the budget or it does not.
\* A blob that fits is saved (part_004: pushed to outputs, `continue`).
LadderTry(fits) ==
  /\ ladPc = "ladder"
  /\ Len(ladTried) < Len(LadderOf(ladVariant))
  /\ LET r == LadderOf(ladVariant)[Len(ladTried) + 1]
         t == [rung |-> r, fits |-> fits]
     IN  IF fits
         THEN /\ ladOut' = Append(ladOut, t)
              /\ IF ladVariant = "part_004" /\ ladB < Len(heightBatches)
                 THEN /\ ladB' = ladB + 1
                      /\ ladTried' = <<>>
                      /\ UNCHANGED ladPc
                 ELSE /\ ladPc' = "done"
                      /\ ladTried' = Append(ladTried, t)
                      /\ UNCHANGED ladB
         ELSE /\ ladTried' = Append(ladTried, t)
              /\ UNCHANGED <<ladPc, ladB, ladOut>>
  /\ UNCHANGED <<ladVariant, heightBatches>>
  /\ UNCHANGED offLad

\* Every encode of the ladder was over the budget: contentScript.js, part_003
\* and part_005 go on to split the tiles into batches.
LadderExhausted ==
  /\ ladPc = "ladder"
  /\ ladVariant # "part_004"
  /\ Len(ladTried) = Len(LadderOf(ladVariant))
  /\ ladPc' = "split"
  /\ UNCHANGED <<ladVariant, heightBatches, ladB, ladTried, ladOut>>
  /\ UNCHANGED offLad

\* part_004 346-362: every tile of the batch is encoded alone as WebP at the
\* fallback quality and pushed whatever its size; then the next batch.
LadderSingles004(fitsEach) ==
  /\ ladPc = "ladder"
  /\ ladVariant = "part_004"
  /\ Len(ladTried) = Len(Ladder004)
  /\ LET n == heightBatches[ladB]
         single(i) == [rung |-> Rung("image/webp", WEBP_QUALITY_FALLBACK),
                       fits |-> fitsEach]
     IN  ladOut' = ladOut \o [i \in 1..n |-> single(i)]
  /\ IF ladB < Len(heightBatches)
     THEN /\ ladB' = ladB + 1
          /\ ladTried' = <<>>
          /\ UNCHANGED ladPc
     ELSE /\ ladPc' = "done"
          /\ UNCHANGED <<ladB, ladTried>>
  /\ UNCHANGED <<ladVariant, heightBatches>>
  /\ UNCHANGED offLad

NextLadder ==
  \/ (\E fits \in BOOLEAN : LadderTry(fits))
  \/ LadderExhausted
  \/ (\E fitsEach \in BOOLEAN : LadderSingles004(fitsEach))

SpecLadder == InitLadder /\ [][NextLadder]_vars

\* The encodes are attempted in the order lossless, lossy at a high quality,
\* lossy at a lower quality.
LadderOrder(tried) ==
  /\ Len(tried) >= 1 => IsLossless(tried[1].rung)
  /\ \A i \in 2..Len(tried) :
       /\ ~IsLossless(tried[i].rung)
       /\ i > 2 => tried[i].rung.quality < tried[i - 1].rung.quality

\* An encode is attempted only when every earlier one was over the budget.
LadderOnlyAfterOver(tried) ==
  \A i, j \in 1..Len(tried) : i < j => ~tried[i].fits

\* A lossless blob that fits is the only encode and the only artifact.
LadderLosslessAlone ==
  (ladPc = "done" /\ Len(ladTried) >= 1
     /\ IsLossless(ladTried[1].rung) /\ ladTried[1].fits) =>
    (Len(ladTried) = 1 /\ Len(ladOut) = 1)

\* C14: the rungs are tried in the order lossless, lossy high quality, lossy
\* reduced quality; a rung is attempted only if every earlier rung was over
\* the budget; a lossless output that fits is the single artifact and no
\* other rung is attempted.
C14_LadderOrder ==
  /\ LadderOrder(ladTried)
  /\ LadderOnlyAfterOver(ladTried)
  /\ LadderLosslessAlone

\* The same for the ladders that start with PNG.
C14_PngLadders == ladVariant # "part_004" => C14_LadderOrder

\* ------------------------------------------------------------------------
\* Last resort for a tile that alone is over the budget
\* ------------------------------------------------------------------------

\* The splitter ran (the ladder on the whole composite did not end the
\* session).
SplitRan == Len(batches) > 0

\* The encodes of one tile alone, in the format the splitter stitches with,
\* that came out over the budget.
OversizedSingles ==
  {r \in sizeOf : /\ Len(r.items) = 1
                  /\ r.fmt \in {"png", "webp"}
                  /\ ~Fits(encoder, r.size)}

\* The tile was downscaled and re-encoded.
Downscaled(items) == \E s \in sizeOf : s.fmt = "scaled" /\ s.items = items

\* The downscaled blob is still over the budget.
StillOver(items) ==
  \E s \in sizeOf : s.fmt = "scaled" /\ s.items = items
                    /\ ~Fits(encoder, s.size)

\* The tile was emitted alone with a warning.
EmittedWithWarning(items) ==
  \E k \in 1..Len(artifacts) :
    artifacts[k].items = items /\ artifacts[k].flagged

\* C15: whenever a single tile alone exceeds the budget during splitting,
\* with the current batch empty or not, the tile is downscaled by 50% and
\* re-encoded, and when the result is still over the budget it is emitted
\* with a recorded warning.
C15_OversizedTileDownscaled ==
  (encPc = "done" /\ SplitRan) =>
    \A r \in OversizedSingles :
      /\ Downscaled(r.items)
      /\ StillOver(r.items) => EmittedWithWarning(r.items)

\* ------------------------------------------------------------------------
\* Tiled stitcher: stitchAndExportImages (part_003), stitchAndExportBlobs
\* (part_005)
\* ------------------------------------------------------------------------

MaxStitchTiles == 3
SAFE_CANVAS_HEIGHT == 30000

Stitchers == {"part_003", "part_005"}

\* Heights a captured tile can have, below, at and above the ceiling.
TileHeights == {1, 9999, 15000, 20000, 30000, 30001, 65000}

RECURSIVE SumHeights(_, _)
\* images.slice(0, n).reduce((s, it) => s + it.height, 0)
SumHeights(images, n) ==
  IF n = 0 THEN 0 ELSE SumHeights(images, n - 1) + images[n]

TotalHeightOf(images) == SumHeights(images, Len(images))

\* srcY = interTop - imgTop, with the variant that always draws from row 0.
SrcY_FromTop(interTop, imgTop) == 0
SrcY(interTop, imgTop) == interTop - imgTop

RECURSIVE DrawLoop(_, _, _, _, _, _, _)
\* `for (const it of images)` inside one output canvas, from image k on:
\* acc is the top of image k in the composite, yInTile the next free row of
\* the canvas, draws the drawImage calls made so far.
DrawLoop(images, cursor, tileH, k, acc, yInTile, draws) ==
  IF k > Len(images) THEN draws
  ELSE LET imgTop == acc
           imgBottom == acc + images[k]
           tileTop == cursor
           tileBottom == cursor + tileH
           interTop == Max(tileTop, imgTop)
           interBottom == Min(tileBottom, imgBottom)
           drawH == interBottom - interTop
           d == [img |-> k, srcY |-> SrcY(interTop, imgTop),
                 drawH |-> drawH, dstY |-> yInTile]
       IN  IF interBottom > interTop
           THEN IF yInTile + drawH >= tileH
                THEN Append(draws, d)
                ELSE DrawLoop(images, cursor, tileH, k + 1, imgBottom,
                              yInTile + drawH, Append(draws, d))
           ELSE DrawLoop(images, cursor, tileH, k + 1, imgBottom, yInTile,
                         draws)

\* One canvas of the tiled fallback.
StitchedPart(images, cursor) ==
  LET tileH == Min(SAFE_CANVAS_HEIGHT, TotalHeightOf(images) - cursor)
  IN  [top |-> cursor, height |-> tileH,
       draws |-> DrawLoop(images, cursor, tileH, 1, 0, 0, <<>>)]

RECURSIVE DrawAll(_, _, _, _)
\* The single canvas: every image drawn whole, one under the other.
DrawAll(images, k, y, draws) ==
  IF k > Len(images) THEN draws
  ELSE DrawAll(images, k + 1, y + images[k],
               Append(draws, [img |-> k, srcY |-> 0, drawH |-> images[k],
                              dstY |-> y]))

RECURSIVE SeqsUpTo(_, _)
SeqsUpTo(S, n) ==
  IF n = 0 THEN {<<>>}
  ELSE SeqsUpTo(S, n - 1) \cup [1..n -> S]

InitStitch ==
  /\ OldIdle
  /\ RestIdle
  /\ LsnIdle
  /\ LadIdle
  /\ OvIdle
  /\ HdrIdle
  /\ GrowIdle
  /\ StyIdle
  /\ ProbeIdle
  /\ BlobIdle
  /\ NoContentIdle
  /\ NameIdle
  /\ TeardownIdle
  /\ ZoomIdle
  /\ ReassertIdle
  /\ CompositeIdle
  /\ FindIdle
  /\ DupIdle
  /\ TwoIdle
  /\ ShortIdle
  /\ BackgroundIdle
  /\ BatchIdle
  /\ ViewerIdle
  /\ stitcher \in Stitchers
  /\ stPc = "start"
  /\ stImages \in (SeqsUpTo(TileHeights, MaxStitchTiles) \ {<<>>})
  /\ stCursor = 0
  /\ stParts = <<>>

\* totalHeight <= SAFE_CANVAS_HEIGHT: one canvas, returned at once.
StitchSingle ==
  /\ stPc = "start"
  /\ TotalHeightOf(stImages) <= SAFE_CANVAS_HEIGHT
  /\ stParts' = <<[top |-> 0, height |-> TotalHeightOf(stImages),
                   draws |-> DrawAll(stImages, 1, 0, <<>>)]>>
  /\ stPc' = "done"
  /\ UNCHANGED <<stitcher, stImages, stCursor>>
  /\ UNCHANGED offSt

\* totalHeight > SAFE_CANVAS_HEIGHT: the tiled fallback starts.
StitchTiledBegin ==
  /\ stPc = "start"
  /\ TotalHeightOf(stImages) > SAFE_CANVAS_HEIGHT
  /\ stPc' = "tiling"
  /\ UNCHANGED <<stitcher, stImages, stCursor, stParts>>
  /\ UNCHANGED offSt

\* One pass of `while (cursor < totalHeight)`.
StitchPart ==
  /\ stPc = "tiling"
  /\ stCursor < TotalHeightOf(stImages)
  /\ LET part == StitchedPart(stImages, stCursor) IN
       /\ stParts' = Append(stParts, part)
       /\ stCursor' = stCursor + part.height
  /\ UNCHANGED <<stitcher, stPc, stImages>>
  /\ UNCHANGED offSt

\* The loop ends: `return parts`.
StitchReturn ==
  /\ stPc = "tiling"
  /\ ~(stCursor < TotalHeightOf(stImages))
  /\ stPc' = "done"
  /\ UNCHANGED <<stitcher, stImages, stCursor, stParts>>
  /\ UNCHANGED offSt

NextStitch == StitchSingle \/ StitchTiledBegin \/ StitchPart \/ StitchReturn

SpecStitch == InitStitch /\ [][NextStitch]_vars

\* Every drawImage call of the produced canvases, with the rows it reads in
\* the composite (srcTop, of the image at its place) and the rows it writes
\* (dstTop, of the canvas at its place).
Draws ==
  UNION {{[part |-> p, img |-> stParts[p].draws[n].img,
           srcTop |-> SumHeights(stImages, stParts[p].draws[n].img - 1)
                        + stParts[p].draws[n].srcY,
           dstTop |-> stParts[p].top + stParts[p].draws[n].dstY,
           drawH |-> stParts[p].draws[n].drawH] :
            n \in 1..Len(stParts[p].draws)} : p \in 1..Len(stParts)}

\* The canvases lie one under the other from row 0 to the total height and
\* none is taller than the ceiling.
PartsTile ==
  /\ Len(stParts) >= 1
  /\ stParts[1].top = 0
  /\ \A p \in 1..Len(stParts) :
       /\ stParts[p].height > 0
       /\ stParts[p].height <= SAFE_CANVAS_HEIGHT
       /\ stParts[p].top + stParts[p].height =
            IF p < Len(stParts) THEN stParts[p + 1].top
            ELSE TotalHeightOf(stImages)

\* The drawImage calls of a canvas fill it from its first row to its last
\* without gap or overlap.
PartFilled(part) ==
  /\ Len(part.draws) >= 1
  /\ part.draws[1].dstY = 0
  /\ \A n \in 1..Len(part.draws) :
       /\ part.draws[n].drawH > 0
       /\ part.draws[n].srcY >= 0
       /\ part.draws[n].srcY + part.draws[n].drawH
            <= stImages[part.draws[n].img]
       /\ part.draws[n].dstY + part.draws[n].drawH =
            IF n < Len(part.draws) THEN part.draws[n + 1].dstY
            ELSE part.height

\* C16: when the summed tile height exceeds SAFE_CANVAS_HEIGHT the stitcher
\* returns canvases of height at most SAFE_CANVAS_HEIGHT whose row ranges
\* are consecutive and together equal [0, total height), every canvas is
\* filled exactly, and every drawImage copies rows of a tile to the rows
\* they have in the composite: each source row is drawn exactly once at its
\* offset, also for a tile that straddles two canvases.
C16_TiledStitchExact ==
  (stPc = "done" /\ TotalHeightOf(stImages) > SAFE_CANVAS_HEIGHT) =>
    /\ PartsTile
    /\ \A p \in 1..Len(stParts) : PartFilled(stParts[p])
    /\ \A d \in Draws : d.srcTop = d.dstTop

\* A tile was drawn into two canvases.
C16_Witness ==
  /\ stPc = "done"
  /\ TotalHeightOf(stImages) > SAFE_CANVAS_HEIGHT
  /\ \E d1, d2 \in Draws : d1.img = d2.img /\ d1.part # d2.part

\* ------------------------------------------------------------------------
\* Overlap detection between consecutive tiles (part_003)
\* ------------------------------------------------------------------------

MaxTileRows == 4
MAX_OVERLAP_CHECK == 800
ROW_DIFF_TOLERANCE == 0

\* Row hashes of page content, and of rows that occur in the second tile
\* only.
RowHashes == {11, 12}
FreshHashes == {21, 22}

\* The last n elements of s.
Suffix(s, n) == SubSeq(s, Len(s) - n + 1, Len(s))

\* The rows the loop over r compares for the overlap o.
RowsMatch(a, b, o) ==
  \A r \in 0..(o - 1) :
    Abs(a[Len(a) - o + r + 1] - b[r + 1]) <= ROW_DIFF_TOLERANCE

RECURSIVE OverlapFrom(_, _, _)
\* `for (let o = maxPossible; o >= 1; o--)`, from o down.
OverlapFrom(a, b, o) ==
  IF o < 1 THEN 0
  ELSE IF RowsMatch(a, b, o) THEN o
  ELSE OverlapFrom(a, b, o - 1)

\* findVerticalOverlap without the cap: maxPossible = Math.min(aH, bH).
FindVerticalOverlap_NoCap(a, b, maxCheck) ==
  LET maxPossible == Min(Len(a), Len(b))
  IN  IF maxPossible <= 0 THEN 0 ELSE OverlapFrom(a, b, maxPossible)

FindVerticalOverlap(a, b, maxCheck) ==
  LET maxPossible == Min(maxCheck, Min(Len(a), Len(b)))
  IN  IF maxPossible <= 0 THEN 0 ELSE OverlapFrom(a, b, maxPossible)

\* maxCheck as startCapture computes it.
MaxCheck(a, b) ==
  Min(Min(Len(a) \div 2, Len(b) \div 2), MAX_OVERLAP_CHECK)

\* A pair of tiles in which exactly the last k rows of the first are the
\* first k rows of the second: the rest of the second tile is fresh.
InitOverlap ==
  /\ OldIdle
  /\ RestIdle
  /\ LsnIdle
  /\ LadIdle
  /\ StIdle
  /\ HdrIdle
  /\ GrowIdle
  /\ StyIdle
  /\ ProbeIdle
  /\ BlobIdle
  /\ NoContentIdle
  /\ NameIdle
  /\ TeardownIdle
  /\ ZoomIdle
  /\ ReassertIdle
  /\ CompositeIdle
  /\ FindIdle
  /\ DupIdle
  /\ TwoIdle
  /\ ShortIdle
  /\ BackgroundIdle
  /\ BatchIdle
  /\ ViewerIdle
  /\ \E ha \in 1..MaxTileRows, hb \in 1..MaxTileRows :
       /\ aHashes \in [1..ha -> RowHashes]
       /\ injected \in 0..Min(ha, hb)
       /\ \E rest \in [1..(hb - injected) -> FreshHashes] :
            bHashes = Suffix(aHashes, injected) \o rest
  /\ ovPc = "start"
  /\ overlaps = <<>>

\* startCapture, overlap computation for the pair.
ComputeOverlap ==
  /\ ovPc = "start"
  /\ overlaps' = Append(overlaps,
                        FindVerticalOverlap(aHashes, bHashes,
                                            MaxCheck(aHashes, bHashes)))
  /\ ovPc' = "done"
  /\ UNCHANGED <<aHashes, bHashes, injected>>
  /\ UNCHANGED offOv

NextOverlap == ComputeOverlap

SpecOverlap == InitOverlap /\ [][NextOverlap]_vars

\* C17: for two consecutive tiles in which exactly the last k rows of the
\* first were injected as the first k rows of the second, 0 <= k <= tile
\* height, the computed overlap equals k.
C17_OverlapEqualsInjected ==
  ovPc = "done" => overlaps[1] = injected

\* Within what maxCheck allows the injected overlap is found.
C17_OverlapWithinMaxCheck ==
  (ovPc = "done" /\ injected <= MaxCheck(aHashes, bHashes)) =>
    overlaps[1] = injected

\* ------------------------------------------------------------------------
\* A fixed header during the capture loop
\* ------------------------------------------------------------------------

MaxHdrTiles == 4

HdrVariants == {"contentScript", "merged"}

\* selector: matched by HEADER_SELECTORS only; visual: found by the small
\* scroll probe only; both: matched by a selector and stationary in the
\* probe.
HdrClasses == {"selector", "visual", "both"}

\* detectHeadersAndFixed: every selector match is a header (mode 'hide');
\* visuallyFixed keeps only the elements that are no selector match (mode
\* 'static').
ModeOf(class) == IF class = "visual" THEN "static" ELSE "hide"

\* What the forced styles make of the element.
Forced(mode) == IF mode = "hide" THEN "hidden" ELSE "flow"

\* Is the header in the picture taken at tile number n (1 = scroll top)? A
\* fixed header is in every viewport, a header in normal flow only in the
\* viewport at the top of the page.
InPicture(state, n) == state = "fixed" \/ (state = "flow" /\ n = 1)

InitHeader ==
  /\ OldIdle
  /\ RestIdle
  /\ LsnIdle
  /\ LadIdle
  /\ StIdle
  /\ OvIdle
  /\ GrowIdle
  /\ StyIdle
  /\ ProbeIdle
  /\ BlobIdle
  /\ NoContentIdle
  /\ NameIdle
  /\ TeardownIdle
  /\ ZoomIdle
  /\ ReassertIdle
  /\ CompositeIdle
  /\ FindIdle
  /\ DupIdle
  /\ TwoIdle
  /\ ShortIdle
  /\ BackgroundIdle
  /\ BatchIdle
  /\ ViewerIdle
  /\ hdrVariant \in HdrVariants
  /\ hdrPc = "detect"
  /\ hdrClass \in IF hdrVariant = "merged" THEN {"both"} ELSE HdrClasses
  /\ hdrState = "fixed"
  /\ hdrLeft \in 1..MaxHdrTiles
  /\ hdrTiles = <<>>

\* contentScript.js 151-198: detect, back up and force the styles, before
\* any capture.
HdrSuppressCS ==
  /\ hdrVariant = "contentScript"
  /\ hdrPc = "detect"
  /\ hdrState' = Forced(ModeOf(hdrClass))
  /\ hdrPc' = "loop"
  /\ UNCHANGED <<hdrVariant, hdrClass, hdrLeft, hdrTiles>>
  /\ UNCHANGED offHdr

\* contentScript.js 217-241, one position: scroll, wait, re-apply the forced
\* styles, capture.
HdrCaptureCS ==
  /\ hdrVariant = "contentScript"
  /\ hdrPc = "loop"
  /\ hdrLeft > 0
  /\ hdrState' = Forced(ModeOf(hdrClass))
  /\ hdrTiles' = Append(hdrTiles, InPicture(hdrState', Len(hdrTiles) + 1))
  /\ hdrLeft' = hdrLeft - 1
  /\ UNCHANGED <<hdrVariant, hdrPc, hdrClass>>
  /\ UNCHANGED offHdr

\* contentScript.js 446-463 (merged): detect, capture the first tile with the
\* header, then hideAndLock.
HdrFirstTileMerged ==
  /\ hdrVariant = "merged"
  /\ hdrPc = "detect"
  /\ hdrTiles' = Append(hdrTiles, InPicture(hdrState, 1))
  /\ hdrState' = "hidden"
  /\ hdrLeft' = hdrLeft - 1
  /\ hdrPc' = "loop"
  /\ UNCHANGED <<hdrVariant, hdrClass>>
  /\ UNCHANGED offHdr

\* contentScript.js 479-502 (merged), one pass: scroll, settle, capture; the
\* styles set by hideAndLock are not applied again.
HdrCaptureMerged ==
  /\ hdrVariant = "merged"
  /\ hdrPc = "loop"
  /\ hdrLeft > 0
  /\ hdrTiles' = Append(hdrTiles, InPicture(hdrState, Len(hdrTiles) + 1))
  /\ hdrLeft' = hdrLeft - 1
  /\ UNCHANGED <<hdrVariant, hdrPc, hdrClass, hdrState>>
  /\ UNCHANGED offHdr

\* A script of the page writes the header's inline style back while the
\* session waits (a scroll handler that sets el.style.display).
PageRestyles ==
  /\ hdrPc = "loop"
  /\ hdrLeft > 0
  /\ hdrState # "fixed"
  /\ hdrState' = "fixed"
  /\ UNCHANGED <<hdrVariant, hdrPc, hdrClass, hdrLeft, hdrTiles>>
  /\ UNCHANGED offHdr

\* The loop is over: the styles are restored (contentScript.js 249-259,
\* cleanupLocks at 519).
HdrRestore ==
  /\ hdrPc = "loop"
  /\ hdrLeft = 0
  /\ hdrState' = "fixed"
  /\ hdrPc' = "done"
  /\ UNCHANGED <<hdrVariant, hdrClass, hdrLeft, hdrTiles>>
  /\ UNCHANGED offHdr

NextHeader ==
  \/ HdrSuppressCS
  \/ HdrCaptureCS
  \/ HdrFirstTileMerged
  \/ HdrCaptureMerged
  \/ PageRestyles
  \/ HdrRestore

SpecHeader == InitHeader /\ [][NextHeader]_vars

\* C18: a fixed header classified as a disturbance is in exactly one tile,
\* the first: visible when the first tile is captured, hidden when every
\* later tile is captured.
C18_HeaderInFirstTileOnly ==
  \A n \in 1..Len(hdrTiles) : hdrTiles[n] = (n = 1)

\* ------------------------------------------------------------------------
\* Static plan on a page that grows during the capture loop
\* ------------------------------------------------------------------------

MaxLiveHeight == 16
LazyGrowPx == 3

StaticPlanners == {"contentScript", "part_001"}

\* The plan each variant computes from the height measured before the loop.
StaticPlan(v, H, V) ==
  IF v = "contentScript" THEN PositionsCS(0, H, V, <<>>)
  ELSE Positions001(0, H, V, <<>>)

\* scrollTo({ top }) on a page of height H: the browser clamps the offset to
\* [0, H - V].
ClampScroll(top, H, V) == Max(0, Min(top, H - V))

\* The offset of the bottom viewport of the live page.
LiveBottom == Max(0, liveHeight - gViewport)

InitGrow ==
  /\ OldIdle
  /\ RestIdle
  /\ LsnIdle
  /\ LadIdle
  /\ StIdle
  /\ OvIdle
  /\ HdrIdle
  /\ StyIdle
  /\ ProbeIdle
  /\ BlobIdle
  /\ NoContentIdle
  /\ NameIdle
  /\ TeardownIdle
  /\ ZoomIdle
  /\ ReassertIdle
  /\ CompositeIdle
  /\ FindIdle
  /\ DupIdle
  /\ TwoIdle
  /\ ShortIdle
  /\ BackgroundIdle
  /\ BatchIdle
  /\ ViewerIdle
  /\ gPlanner \in StaticPlanners
  /\ gViewport \in 1..MaxViewportHeight
  /\ liveHeight \in 1..MaxTotalHeight
  /\ gPositions = StaticPlan(gPlanner, liveHeight, gViewport)
  /\ gPc = "loop"
  /\ gIdx = 1
  /\ gTops = <<>>

\* contentScript.js 217-241 / part_001 132-143, one position: scrollTo(pos),
\* wait (lazy content makes the page g px taller), capture.
StaticCapture(g) ==
  /\ gPc = "loop"
  /\ gIdx <= Len(gPositions)
  /\ liveHeight + g <= MaxLiveHeight
  /\ liveHeight' = liveHeight + g
  /\ gTops' = Append(gTops,
                     ClampScroll(gPositions[gIdx], liveHeight, gViewport))
  /\ gIdx' = gIdx + 1
  /\ UNCHANGED <<gPlanner, gPc, gPositions, gViewport>>
  /\ UNCHANGED offGrow

\* The positions are used up: the loop ends.
StaticLoopEnds ==
  /\ gPc = "loop"
  /\ gIdx > Len(gPositions)
  /\ gPc' = "done"
  /\ UNCHANGED <<gPlanner, gPositions, gIdx, liveHeight, gViewport, gTops>>
  /\ UNCHANGED offGrow

NextGrow ==
  \/ (\E g \in {0, LazyGrowPx} : StaticCapture(g))
  \/ StaticLoopEnds

SpecGrow == InitGrow /\ [][NextGrow]_vars

\* C19: when the page grows while the capture loop runs, the loop still ends
\* with a tile captured at the live bottom offset (live scrollHeight minus
\* viewport height).
C19_EndsAtLiveBottom ==
  gPc = "done" => Last(gTops) = LiveBottom

\* ------------------------------------------------------------------------
\* Range and order of the planned offsets
\* ------------------------------------------------------------------------

\* The offsets are strictly increasing.
StrictlyIncreasing(ps) == \A i \in 1..(Len(ps) - 1) : ps[i] < ps[i + 1]

\* C20: every offset of a scroll plan is a non-negative integer inside
\* [0, totalHeight - viewportHeight] and the offsets are strictly
\* increasing, for all positive totalHeight and viewportHeight, including
\* totalHeight < viewportHeight.
C20_OffsetsInRangeIncreasing ==
  planner # "none" =>
    /\ \A i \in 1..Len(positions) :
         /\ positions[i] \in Nat
         /\ positions[i] <= totalHeight - viewportHeight
    /\ StrictlyIncreasing(positions)

\* No plan holds a negative offset.
C20_NonNegative ==
  planner # "none" => \A i \in 1..Len(positions) : positions[i] >= 0

\* On a page at least one viewport tall the offsets are in range and
\* strictly increasing.
C20_TallPage ==
  (planner # "none" /\ totalHeight >= viewportHeight) =>
    C20_OffsetsInRangeIncreasing

\* ------------------------------------------------------------------------
\* Inline styles written by suppression and by restoration
\* ------------------------------------------------------------------------

StyVariants == {"contentScript", "part_001", "merged"}

\* The inline style properties the variants back up or write.
StyProps == {"position", "top", "bottom", "zIndex", "transform", "display",
             "visibility", "opacity", "pointerEvents"}

StyleWith(v) == [p \in StyProps |-> v]

\* contentScript.js 183-197: a header is hidden; a visually fixed element is
\* forced into the flow and, if its computed display is none, shown.
SuppressInline(el, st, hidden) ==
  IF el = "widget" /\ hidden
  THEN [SuppressCS(el, st) EXCEPT !.display = "block"]
  ELSE SuppressCS(el, st)

\* Merged variant, hideAndLock: four properties are written.
HideAndLock(st) ==
  [st EXCEPT !.display = "none", !.visibility = "hidden", !.opacity = "0",
             !.pointerEvents = "none"]

\* Merged variant, cleanupLocks: the four recorded properties are put back.
CleanupLocks(st, r) ==
  [st EXCEPT !.display = r.display, !.visibility = r.visibility,
             !.opacity = r.opacity, !.pointerEvents = r.pointerEvents]

SuppressEl(v, el, st, hidden) ==
  CASE v = "contentScript" -> SuppressInline(el, st, hidden)
    [] v = "part_001"      -> SuppressFixed(el, st)
    [] OTHER               -> HideAndLock(st)

\* The defensive re-apply before each capture (contentScript.js 224-236);
\* the other variants do not re-apply.
ReapplyEl(v, el, st) ==
  IF v = "contentScript" THEN SuppressCS(el, st) ELSE st

RestoreEl(v, st, b) ==
  CASE v = "contentScript" -> RestoreCS(st, b)
    [] v = "part_001"      -> RestoreFixed(st, b)
    [] OTHER               -> CleanupLocks(st, b)

\* The properties suppression writes, and the properties restoration writes,
\* read off the operators above.
WrittenBy(v, el, hidden) ==
  {p \in StyProps : SuppressEl(v, el, StyleWith("?"), hidden)[p] # "?"}
RestoredBy(v) ==
  {p \in StyProps : RestoreEl(v, StyleWith("?"), StyleWith("!"))[p] # "?"}

InitStyle ==
  /\ OldIdle
  /\ RestIdle
  /\ LsnIdle
  /\ LadIdle
  /\ StIdle
  /\ OvIdle
  /\ HdrIdle
  /\ GrowIdle
  /\ ProbeIdle
  /\ BlobIdle
  /\ NoContentIdle
  /\ NameIdle
  /\ TeardownIdle
  /\ ZoomIdle
  /\ ReassertIdle
  /\ CompositeIdle
  /\ FindIdle
  /\ DupIdle
  /\ TwoIdle
  /\ ShortIdle
  /\ BackgroundIdle
  /\ BatchIdle
  /\ ViewerIdle
  /\ styVariant \in StyVariants
  /\ styEl \in Els
  /\ styHidden \in BOOLEAN
  /\ elStyle \in {StyleWith(""), StyleWith("author")}
  /\ styPc = "detect"
  /\ elBackup = <<>>
  /\ scripted = {}

\* Backup and apply.
StySuppress ==
  /\ styPc = "detect"
  /\ elBackup' = elStyle
  /\ elStyle' = SuppressEl(styVariant, styEl, elStyle, styHidden)
  /\ styPc' = "suppressed"
  /\ UNCHANGED <<styVariant, styEl, styHidden, scripted>>
  /\ UNCHANGED offSty

\* A page script writes one inline property of the element during the session.
PageScriptSets(p) ==
  /\ styPc = "suppressed"
  /\ elStyle' = [elStyle EXCEPT ![p] = "page"]
  /\ scripted' = scripted \cup {p}
  /\ UNCHANGED <<styVariant, styPc, styEl, styHidden, elBackup>>
  /\ UNCHANGED offSty

\* Before a capture the forced styles are written again.
StyReapply ==
  /\ styPc = "suppressed"
  /\ elStyle' = ReapplyEl(styVariant, styEl, elStyle)
  /\ UNCHANGED <<styVariant, styPc, styEl, styHidden, elBackup, scripted>>
  /\ UNCHANGED offSty

\* Restore the inline styles from the backup.
StyRestore ==
  /\ styPc = "suppressed"
  /\ elStyle' = RestoreEl(styVariant, elStyle, elBackup)
  /\ styPc' = "done"
  /\ UNCHANGED <<styVariant, styEl, styHidden, elBackup, scripted>>
  /\ UNCHANGED offSty

NextStyle ==
  \/ StySuppress
  \/ \E p \in StyProps : PageScriptSets(p)
  \/ StyReapply
  \/ StyRestore

SpecStyle == InitStyle /\ [][NextStyle]_vars

\* C21: restoration writes only to the inline style properties that
\* suppression wrote for that element; a property of a suppressed element
\* that suppression did not touch, and that a page script changed during the
\* session, keeps the page script's value after restoration.
C21_RestoreOnlyWritten ==
  styPc = "done" =>
    /\ RestoredBy(styVariant) \subseteq
         WrittenBy(styVariant, styEl, styHidden)
    /\ \A p \in scripted \ WrittenBy(styVariant, styEl, styHidden) :
         elStyle[p] = "page"

\* The variants that hide with visibility or with locks restore exactly the
\* properties they wrote.
C21_ExactRestorers ==
  (styPc = "done" /\ styVariant # "contentScript") => C21_RestoreOnlyWritten

\* ------------------------------------------------------------------------
\* The scroll probe of the fixed-element detection
\* ------------------------------------------------------------------------

MaxScrollOffset == 320
ProbeGrid == 10

\* const smallScroll = 120 (contentScript.js); const scrollTest = 150
\* (part_002).
smallScroll == 120
scrollTest == 150

ProbeVariants == {"contentScript", "part_002"}
ProbeDistance(v) == IF v = "contentScript" THEN smallScroll ELSE scrollTest

ProbeOffsets == {y \in 0..MaxScrollOffset : y % ProbeGrid = 0}

\* window.scrollBy(0, dy): the browser clamps the offset to [0, maxTop].
ScrollBy(top, dy, maxTop) == Max(0, Min(top + dy, maxTop))

InitProbe ==
  /\ OldIdle
  /\ RestIdle
  /\ LsnIdle
  /\ LadIdle
  /\ StIdle
  /\ OvIdle
  /\ HdrIdle
  /\ GrowIdle
  /\ StyIdle
  /\ BlobIdle
  /\ NoContentIdle
  /\ NameIdle
  /\ TeardownIdle
  /\ ZoomIdle
  /\ ReassertIdle
  /\ CompositeIdle
  /\ FindIdle
  /\ DupIdle
  /\ TwoIdle
  /\ ShortIdle
  /\ BackgroundIdle
  /\ BatchIdle
  /\ ViewerIdle
  /\ prVariant \in ProbeVariants
  /\ prMax \in ProbeOffsets
  /\ prStart \in {y \in ProbeOffsets : y <= prMax}
  /\ prTop = prStart
  /\ prPc = "before"

\* window.scrollBy(0, smallScroll)
ProbeForward ==
  /\ prPc = "before"
  /\ prTop' = ScrollBy(prTop, ProbeDistance(prVariant), prMax)
  /\ prPc' = "forward"
  /\ UNCHANGED <<prVariant, prStart, prMax>>
  /\ UNCHANGED offProbe

\* window.scrollBy(0, -smallScroll)
ProbeBack ==
  /\ prPc = "forward"
  /\ prTop' = ScrollBy(prTop, 0 - ProbeDistance(prVariant), prMax)
  /\ prPc' = "after"
  /\ UNCHANGED <<prVariant, prStart, prMax>>
  /\ UNCHANGED offProbe

NextProbe ==
  \/ ProbeForward
  \/ ProbeBack

SpecProbe == InitProbe /\ [][NextProbe]_vars

\* C22: the probe (scrollBy(+d) followed by scrollBy(-d)) leaves the scroll
\* offset equal to the offset before the probe, for every starting offset in
\* [0, maximum scroll offset], including offsets within d of the bottom.
C22_ProbeRestoresOffset ==
  prPc = "after" => prTop = prStart

\* Away from the bottom the probe returns to the starting offset.
C22_AwayFromBottom ==
  (prPc = "after" /\ prStart + ProbeDistance(prVariant) <= prMax) =>
    prTop = prStart

\* ------------------------------------------------------------------------
\* Encodes that return no data (canvas.toBlob yields null)
\* ------------------------------------------------------------------------

BlobVariants == {"contentScript", "part_003", "part_004"}

\* What canvasToBlob resolves with: null, a blob over the budget, or a blob
\* within it.
BlobOutcomes == {"null", "over", "fits"}

\* `blob.size <= MAX_BYTES` on null throws a TypeError; part_004 tests
\* `attempt.blob && attempt.blob.size <= MAX_BYTES`.
SizeTestThrows(v, out) == v # "part_004" /\ out = "null"

InitBlob ==
  /\ OldIdle
  /\ RestIdle
  /\ LsnIdle
  /\ LadIdle
  /\ StIdle
  /\ OvIdle
  /\ HdrIdle
  /\ GrowIdle
  /\ StyIdle
  /\ ProbeIdle
  /\ NoContentIdle
  /\ NameIdle
  /\ TeardownIdle
  /\ ZoomIdle
  /\ ReassertIdle
  /\ CompositeIdle
  /\ FindIdle
  /\ DupIdle
  /\ TwoIdle
  /\ ShortIdle
  /\ BackgroundIdle
  /\ BatchIdle
  /\ ViewerIdle
  /\ nbVariant \in BlobVariants
  /\ nbPc = "ladder"
  /\ nbTried = <<>>
  /\ nbOut = 0

\* One encode of the ladder and the size test that follows it.
BlobEncode(out) ==
  /\ nbPc = "ladder"
  /\ Len(nbTried) < Len(LadderOf(nbVariant))
  /\ nbTried' = Append(nbTried, out)
  /\ IF SizeTestThrows(nbVariant, out)
     THEN nbPc' = "failed" /\ UNCHANGED nbOut
     ELSE IF out = "fits"
          THEN nbPc' = "done" /\ nbOut' = nbOut + 1
          ELSE UNCHANGED <<nbPc, nbOut>>
  /\ UNCHANGED nbVariant
  /\ UNCHANGED offBlob

\* No encode of the ladder was accepted: contentScript.js and part_003 go on
\* to the batches, part_004 encodes the tiles one by one.
BlobLadderEnds ==
  /\ nbPc = "ladder"
  /\ Len(nbTried) = Len(LadderOf(nbVariant))
  /\ nbPc' = IF nbVariant = "part_004" THEN "singles" ELSE "split"
  /\ UNCHANGED <<nbVariant, nbTried, nbOut>>
  /\ UNCHANGED offBlob

\* part_004 346-377, a batch of one tile: a non-null blob is pushed whatever
\* its size; with no output at all the session throws.
BlobSingle004(out) ==
  /\ nbPc = "singles"
  /\ nbTried' = Append(nbTried, out)
  /\ IF out = "null"
     THEN nbPc' = "failed" /\ UNCHANGED nbOut
     ELSE nbPc' = "done" /\ nbOut' = nbOut + 1
  /\ UNCHANGED nbVariant
  /\ UNCHANGED offBlob

NextBlob ==
  \/ (\E out \in BlobOutcomes : BlobEncode(out))
  \/ BlobLadderEnds
  \/ (\E out \in BlobOutcomes : BlobSingle004(out))

SpecBlob == InitBlob /\ [][NextBlob]_vars

\* C23: when an encode returns no data at some rung the encoder goes on to
\* the next rung; the session fails only if every rung has been tried
\* without producing data.
C23_NullEncodeRecovered ==
  nbPc = "failed" =>
    /\ Len(nbTried) >= Len(LadderOf(nbVariant))
    /\ \A i \in 1..Len(nbTried) : nbTried[i] = "null"

\* part_004 fails only after every rung was tried and none was accepted.
C23_GuardedLadder ==
  (nbPc = "failed" /\ nbVariant = "part_004") =>
    /\ Len(nbTried) > Len(Ladder004)
    /\ nbOut = 0

\* ------------------------------------------------------------------------
\* Pages without a body and sessions without usable tiles
\* ------------------------------------------------------------------------

MaxNcTiles == 4

NcVariants == {"contentScript", "merged", "part_003", "part_004"}

\* `if (!document.body) throw new Error('No document body found')` is the
\* first statement of startCapture everywhere but in the merged variant.
ChecksBody(v) == v # "merged"

\* part_004 292-300 skips a tile whose image fails to load; elsewhere the
\* rejection of loadImage ends the session.
SkipsFailedLoad(v) == v = "part_004"

Usable(loads) == Cardinality({i \in 1..Len(loads) : loads[i]})

InitNoContent ==
  /\ OldIdle
  /\ RestIdle
  /\ LsnIdle
  /\ LadIdle
  /\ StIdle
  /\ OvIdle
  /\ HdrIdle
  /\ GrowIdle
  /\ StyIdle
  /\ ProbeIdle
  /\ BlobIdle
  /\ NameIdle
  /\ TeardownIdle
  /\ ZoomIdle
  /\ ReassertIdle
  /\ CompositeIdle
  /\ FindIdle
  /\ DupIdle
  /\ TwoIdle
  /\ ShortIdle
  /\ BackgroundIdle
  /\ BatchIdle
  /\ ViewerIdle
  /\ ncVariant \in NcVariants
  /\ hasBody \in BOOLEAN
  /\ ncPc = "start"
  /\ ncCaptured = 0
  /\ ncLoads = <<>>
  /\ ncOutcome = "none"
  /\ ncArtifacts = 0

\* The first statement of startCapture.
NcBodyCheck ==
  /\ ncPc = "start"
  /\ IF ChecksBody(ncVariant) /\ ~hasBody
     THEN ncPc' = "done" /\ ncOutcome' = "fatal"
     ELSE ncPc' = "capture" /\ UNCHANGED ncOutcome
  /\ UNCHANGED <<ncVariant, hasBody, ncCaptured, ncLoads, ncArtifacts>>
  /\ UNCHANGED offNc

\* capturedDataUrls.push(await safeCapture())
NcCapture ==
  /\ ncPc = "capture"
  /\ ncVariant # "merged"
  /\ ncCaptured < MaxNcTiles
  /\ ncCaptured' = ncCaptured + 1
  /\ UNCHANGED <<ncVariant, hasBody, ncPc, ncLoads, ncOutcome, ncArtifacts>>
  /\ UNCHANGED offNc

\* Merged variant: safeCapture and loadImage of one tile.
NcCaptureMerged(ok) ==
  /\ ncPc = "capture"
  /\ ncVariant = "merged"
  /\ ncCaptured < MaxNcTiles
  /\ ncCaptured' = ncCaptured + 1
  /\ ncLoads' = Append(ncLoads, ok)
  /\ IF ok
     THEN UNCHANGED <<ncPc, ncOutcome>>
     ELSE ncPc' = "done" /\ ncOutcome' = "fatal"
  /\ UNCHANGED <<ncVariant, hasBody, ncArtifacts>>
  /\ UNCHANGED offNc

\* The capture loop ends; every loop has captured at least one tile
\* (part_004: the tile at 0 and one more).
NcLoopEnds ==
  /\ ncPc = "capture"
  /\ ncCaptured >= (IF ncVariant = "part_004" THEN 2 ELSE 1)
  /\ ncPc' = IF ncVariant = "merged" THEN "stitch" ELSE "load"
  /\ UNCHANGED <<ncVariant, hasBody, ncCaptured, ncLoads, ncOutcome,
                 ncArtifacts>>
  /\ UNCHANGED offNc

\* await loadImage(d) for the next data URL.
NcLoad(ok) ==
  /\ ncPc = "load"
  /\ Len(ncLoads) < ncCaptured
  /\ ncLoads' = Append(ncLoads, ok)
  /\ IF ~ok /\ ~SkipsFailedLoad(ncVariant)
     THEN ncPc' = "done" /\ ncOutcome' = "fatal"
     ELSE /\ ncPc' = IF Len(ncLoads') = ncCaptured THEN "stitch" ELSE "load"
          /\ UNCHANGED ncOutcome
  /\ UNCHANGED <<ncVariant, hasBody, ncCaptured, ncArtifacts>>
  /\ UNCHANGED offNc

\* `if (images.length === 0) throw ...`, else stitch and download.
NcStitch ==
  /\ ncPc = "stitch"
  /\ IF Usable(ncLoads) = 0
     THEN ncOutcome' = "fatal" /\ UNCHANGED ncArtifacts
     ELSE ncOutcome' = "saved" /\ ncArtifacts' = 1
  /\ ncPc' = "done"
  /\ UNCHANGED <<ncVariant, hasBody, ncCaptured, ncLoads>>
  /\ UNCHANGED offNc

NextNoContent ==
  \/ NcBodyCheck
  \/ NcCapture
  \/ (\E ok \in BOOLEAN : NcCaptureMerged(ok))
  \/ NcLoopEnds
  \/ (\E ok \in BOOLEAN : NcLoad(ok))
  \/ NcStitch

SpecNoContent == InitNoContent /\ [][NextNoContent]_vars

\* C24: a session on a page without a document body, or a session that ends
\* its capture loop with zero usable tiles, ends with a fatal error and
\* emits no artifact.
C24_NoContentIsFatal ==
  (ncPc = "done" /\ (~hasBody \/ Usable(ncLoads) = 0)) =>
    (ncOutcome = "fatal" /\ ncArtifacts = 0)

\* The variants that test document.body, and every variant when no tile is
\* usable, end with a fatal error and no artifact.
C24_CheckedVariants ==
  (ncPc = "done"
     /\ \/ ~hasBody /\ ChecksBody(ncVariant)
        \/ Usable(ncLoads) = 0) =>
    (ncOutcome = "fatal" /\ ncArtifacts = 0)

\* ------------------------------------------------------------------------
\* File names of the artifacts
\* ------------------------------------------------------------------------

MaxArtifacts == 3
MaxClock == 2

NameVariants == {"contentScript", "part_004", "merged"}
Hosts == {"a.example", "b.example"}

\* A name is the list of the pieces the template strings put together.
NoPart == 0 - 1
NoStamp == 0 - 1

\* hostname.replace(/\./g, '_')
Underscored(host) ==
  CASE host = "a.example" -> "a_example"
    [] host = "b.example" -> "b_example"
    [] OTHER -> host
FileName(base, part, stamp, ext) ==
  [base |-> base, part |-> part, stamp |-> stamp, ext |-> ext]

\* contentScript.js saveBlob(blob, ext, index = 0):
\* index ? `${base}_part${index}.${ext}` : `${base}_fullpage.${ext}`
SaveBlobName(host, ext, index) ==
  FileName(Underscored(host), IF index # 0 THEN index ELSE NoPart, NoStamp, ext)

\* part_004 369-371: out.partIndex > 1 ? `${base}_part${partIndex}_${ts}.ext`
\*                                     : `${base}_fullpage_${ts}.ext`
OutputName004(host, ext, partIndex, ts) ==
  FileName(Underscored(host), IF partIndex > 1 THEN partIndex ELSE NoPart, ts, ext)

\* merged 528: `${location.hostname}_fullpage_${Date.now()}.jpg`
MergedName(host, now) == FileName(host, NoPart, now, "jpg")

InitName ==
  /\ OldIdle
  /\ RestIdle
  /\ LsnIdle
  /\ LadIdle
  /\ StIdle
  /\ OvIdle
  /\ HdrIdle
  /\ GrowIdle
  /\ StyIdle
  /\ ProbeIdle
  /\ BlobIdle
  /\ NoContentIdle
  /\ TeardownIdle
  /\ ZoomIdle
  /\ ReassertIdle
  /\ CompositeIdle
  /\ FindIdle
  /\ DupIdle
  /\ TwoIdle
  /\ ShortIdle
  /\ BackgroundIdle
  /\ BatchIdle
  /\ ViewerIdle
  /\ nmVariant \in NameVariants
  /\ nmHost \in Hosts
  /\ nmNow \in 1..MaxClock
  /\ nmSplit \in (IF nmVariant = "contentScript" THEN BOOLEAN ELSE {FALSE})
  /\ nmCount \in (IF nmVariant = "merged"
                     \/ (nmVariant = "contentScript" /\ ~nmSplit)
                  THEN {1} ELSE 1..MaxArtifacts)
  /\ nmPc = "save"
  /\ nmNames = <<>>

\* The next blob is handed to downloadBlob under its name.
SaveNext(ext) ==
  /\ nmPc = "save"
  /\ Len(nmNames) < nmCount
  /\ LET i == Len(nmNames) + 1
         name == CASE nmVariant = "contentScript" ->
                        SaveBlobName(nmHost, ext, IF nmSplit THEN i ELSE 0)
                   [] nmVariant = "part_004" ->
                        OutputName004(nmHost, ext, i, nmNow)
                   [] OTHER -> MergedName(nmHost, nmNow)
     IN  nmNames' = Append(nmNames, name)
  /\ UNCHANGED <<nmVariant, nmPc, nmHost, nmNow, nmSplit, nmCount>>
  /\ UNCHANGED offName

SaveEnds ==
  /\ nmPc = "save"
  /\ Len(nmNames) = nmCount
  /\ nmPc' = "done"
  /\ UNCHANGED <<nmVariant, nmHost, nmNow, nmSplit, nmCount, nmNames>>
  /\ UNCHANGED offName

NextName ==
  \/ (\E ext \in {"jpg", "webp"} : SaveNext(ext))
  \/ SaveEnds

SpecName == InitName /\ [][NextName]_vars

\* C25: every artifact's file name is derived from the page's origin and a
\* capture timestamp, and whenever a session emits more than one artifact
\* every one of them, including the first, carries its part index.
C25_NamesCarryStampAndPart ==
  nmPc = "done" =>
    \A i \in 1..Len(nmNames) :
      /\ nmNames[i].base \in {nmHost, Underscored(nmHost)}
      /\ nmNames[i].stamp # NoStamp
      /\ Len(nmNames) > 1 => nmNames[i].part = i

\* Every name starts with the host; the names of one session differ.
C25_NamesFromHostDistinct ==
  nmPc = "done" =>
    /\ \A i \in 1..Len(nmNames) :
         nmNames[i].base \in {nmHost, Underscored(nmHost)}
    /\ \A i, j \in 1..Len(nmNames) :
         i # j => nmNames[i].part # nmNames[j].part

\* ------------------------------------------------------------------------
\* Teardown of the merged variant (HUD, observer, locks)
\* ------------------------------------------------------------------------

MaxTdTiles == 3

Bands == {"header", "footer", "overlay"}

InitTeardown ==
  /\ OldIdle
  /\ RestIdle
  /\ LsnIdle
  /\ LadIdle
  /\ StIdle
  /\ OvIdle
  /\ HdrIdle
  /\ GrowIdle
  /\ StyIdle
  /\ ProbeIdle
  /\ BlobIdle
  /\ NoContentIdle
  /\ NameIdle
  /\ ZoomIdle
  /\ ReassertIdle
  /\ CompositeIdle
  /\ FindIdle
  /\ DupIdle
  /\ TwoIdle
  /\ ShortIdle
  /\ BackgroundIdle
  /\ BatchIdle
  /\ ViewerIdle
  /\ tdPc = "setup"
  /\ tdDetected \in SUBSET Bands
  /\ tdHud = FALSE
  /\ tdObserver = "none"
  /\ tdLocks = {}
  /\ tdTiles = 0
  /\ tdOutcome = "none"

\* An awaited call rejects: startCapture has no try/finally, the error goes
\* to the listener's catch, which logs and alerts.
TdThrown ==
  /\ tdPc' = "done"
  /\ tdOutcome' = "failed"
  /\ UNCHANGED <<tdDetected, tdHud, tdObserver, tdLocks, tdTiles>>

\* const hud = CFG.debugHud ? makeHud() : null  (debugHud: true)
TdMakeHud ==
  /\ tdPc = "setup"
  /\ tdHud' = TRUE
  /\ tdPc' = "top"
  /\ UNCHANGED <<tdDetected, tdObserver, tdLocks, tdTiles, tdOutcome>>
  /\ UNCHANGED offTd

\* First tile, then hideAndLock and observeAndNukeNewBands.
TdTopTile(ok) ==
  /\ tdPc = "top"
  /\ IF ok
     THEN /\ tdTiles' = 1
          /\ tdLocks' = tdDetected
          /\ tdObserver' = "observing"
          /\ tdPc' = "loop"
          /\ UNCHANGED <<tdDetected, tdHud, tdOutcome>>
     ELSE TdThrown
  /\ UNCHANGED offTd

\* One iteration of the adaptive loop: safeCapture, loadImage.
TdTile(ok) ==
  /\ tdPc = "loop"
  /\ tdTiles < MaxTdTiles
  /\ IF ok
     THEN /\ tdTiles' = tdTiles + 1
          /\ UNCHANGED <<tdPc, tdDetected, tdHud, tdObserver, tdLocks,
                         tdOutcome>>
     ELSE TdThrown
  /\ UNCHANGED offTd

\* The loop breaks (cap, bottom or duplicate).
TdLoopExit ==
  /\ tdPc = "loop"
  /\ tdPc' = "sweep"
  /\ UNCHANGED <<tdDetected, tdHud, tdObserver, tdLocks, tdTiles, tdOutcome>>
  /\ UNCHANGED offTd

\* Final sweep: driveToBottom, safeCapture, loadImage.
TdSweep(ok) ==
  /\ tdPc = "sweep"
  /\ IF ok
     THEN /\ tdPc' = "stitch"
          /\ UNCHANGED <<tdDetected, tdHud, tdObserver, tdLocks, tdTiles,
                         tdOutcome>>
     ELSE TdThrown
  /\ UNCHANGED offTd

\* stitch, then cleanupLocks, disconnect, killHud.
TdStitchAndCleanup(ok) ==
  /\ tdPc = "stitch"
  /\ IF ok
     THEN /\ tdLocks' = {}
          /\ tdObserver' = "disconnected"
          /\ tdHud' = FALSE
          /\ tdPc' = "output"
          /\ UNCHANGED <<tdDetected, tdTiles, tdOutcome>>
     ELSE TdThrown
  /\ UNCHANGED offTd

\* Download, data URL, chrome.storage.local.set, window.open.
TdOutput(ok) ==
  /\ tdPc = "output"
  /\ tdPc' = "done"
  /\ tdOutcome' = IF ok THEN "ok" ELSE "failed"
  /\ UNCHANGED <<tdDetected, tdHud, tdObserver, tdLocks, tdTiles>>
  /\ UNCHANGED offTd

NextTeardown ==
  \/ TdMakeHud
  \/ (\E ok \in BOOLEAN : TdTopTile(ok))
  \/ (\E ok \in BOOLEAN : TdTile(ok))
  \/ TdLoopExit
  \/ (\E ok \in BOOLEAN : TdSweep(ok))
  \/ (\E ok \in BOOLEAN : TdStitchAndCleanup(ok))
  \/ (\E ok \in BOOLEAN : TdOutput(ok))

SpecTeardown == InitTeardown /\ [][NextTeardown]_vars

\* C26: by the end of a merged-variant session, on success and on every
\* thrown error, the MutationObserver is disconnected, the HUD element is
\* removed from the document and all locks of hideAndLock are cleaned up.
C26_TornDownAtEnd ==
  tdPc = "done" =>
    /\ tdObserver # "observing"
    /\ ~tdHud
    /\ tdLocks = {}

\* A session that reaches the stitched blob is torn down.
C26_TornDownAfterStitch ==
  (tdPc = "done" /\ tdOutcome = "ok") => C26_TornDownAtEnd

\* ------------------------------------------------------------------------
\* The adaptive zoom loop (part_003, second variant)
\* ------------------------------------------------------------------------

\* Zoom factors are kept in units of 1e-7: 1.0 is ZoomUnit.
ZoomUnit == 10 * 1000 * 1000

\* const MIN_ZOOM = 0.12; const ZOOM_RETRY_FACTOR = 0.88 (in hundredths);
\* the literal 1e-6 of `zoom <= MIN_ZOOM + 1e-6`.
MIN_ZOOM == 1200000
ZOOM_RETRY_FACTOR == 88
ZOOM_EPSILON == 10

MaxZoomAttempts == 18

PageHeights == {20000, 30000, 30001, 31000, 40000, 100000, 200000, 245000,
                249998, 249999, 250000, 250001, 260000, 500000}
ViewportPxs == {700, 900, 1000}

\* a / b in units of 1e-7, for a < b, computed by long division.
ZoomRatio(a, b) ==
  LET q1 == (a * 1000) \div b
      r1 == (a * 1000) % b
      q2 == (r1 * 1000) \div b
      r2 == (r1 * 1000) % b
      q3 == (r2 * 10) \div b
  IN  q1 * 10000 + q2 * 10 + q3

\* zoom = Math.max(MIN_ZOOM, SAFE_CANVAS_HEIGHT / estimatedPixelH), or 1.
InitialZoom(est) ==
  IF est <= SAFE_CANVAS_HEIGHT THEN ZoomUnit
  ELSE Max(MIN_ZOOM, ZoomRatio(SAFE_CANVAS_HEIGHT, est))

\* zoom = Math.max(MIN_ZOOM, zoom * ZOOM_RETRY_FACTOR), without the clamp.
ReduceZoom_Unclamped(z) == (z * ZOOM_RETRY_FACTOR) \div 100

\* zoom = Math.max(MIN_ZOOM, zoom * ZOOM_RETRY_FACTOR)
ReduceZoom(z) == Max(MIN_ZOOM, (z * ZOOM_RETRY_FACTOR) \div 100)

\* attemptCaptureAtZoom: every tile is one viewport tall, the page at this
\* zoom needs ceil(height / viewport) of them (the zoom is read to 1e-3).
TotalPixelHeightAt(est, z, vpx) ==
  LET h == (est * (z \div 10000)) \div 1000
      n == Max(1, (h + vpx - 1) \div vpx)
  IN  n * vpx

InitZoom ==
  /\ OldIdle
  /\ RestIdle
  /\ LsnIdle
  /\ LadIdle
  /\ StIdle
  /\ OvIdle
  /\ HdrIdle
  /\ GrowIdle
  /\ StyIdle
  /\ ProbeIdle
  /\ BlobIdle
  /\ NoContentIdle
  /\ NameIdle
  /\ TeardownIdle
  /\ ReassertIdle
  /\ CompositeIdle
  /\ FindIdle
  /\ DupIdle
  /\ TwoIdle
  /\ ShortIdle
  /\ BackgroundIdle
  /\ BatchIdle
  /\ ViewerIdle
  /\ zPc = "measure"
  /\ zEst \in PageHeights
  /\ zVpx \in ViewportPxs
  /\ zoomU = ZoomUnit
  /\ zAttempt = 0
  /\ zTotal = 0

\* The zoom of the first attempt.
ZoomChoose ==
  /\ zPc = "measure"
  /\ zoomU' = InitialZoom(zEst)
  /\ zPc' = "attempt"
  /\ UNCHANGED <<zAttempt, zEst, zVpx, zTotal>>
  /\ UNCHANGED offZoom

\* One iteration of `while (true)`: capture at the zoom, then stop or
\* reduce the zoom. The page may have grown by lazy loading meanwhile.
ZoomAttempt(grew) ==
  /\ zPc = "attempt"
  /\ zAttempt' = zAttempt + 1
  /\ zTotal' = TotalPixelHeightAt(zEst, zoomU, zVpx)
                 + (IF grew THEN SAFE_CANVAS_HEIGHT ELSE 0)
  /\ IF zTotal' <= SAFE_CANVAS_HEIGHT
     THEN zPc' = "stopped" /\ UNCHANGED zoomU
     ELSE IF zoomU <= MIN_ZOOM + ZOOM_EPSILON
          THEN zPc' = "stopped" /\ UNCHANGED zoomU
          ELSE zoomU' = ReduceZoom(zoomU) /\ UNCHANGED zPc
  /\ UNCHANGED <<zEst, zVpx>>
  /\ UNCHANGED offZoom

NextZoom ==
  \/ ZoomChoose
  \/ (\E grew \in BOOLEAN : ZoomAttempt(grew))

SpecZoom == InitZoom /\ [][NextZoom]_vars

\* C27 as stated: the zoom applied at every attempt lies in [MIN_ZOOM, 1],
\* the loop stops after finitely many attempts, and when it stops either the
\* total stitched pixel height is at most SAFE_CANVAS_HEIGHT or the zoom
\* equals MIN_ZOOM.
C27_ZoomStopsAtMin ==
  /\ zPc \in {"attempt", "stopped"} => (MIN_ZOOM <= zoomU /\ zoomU <= ZoomUnit)
  /\ zAttempt <= MaxZoomAttempts
  /\ zPc = "stopped" =>
       (zTotal <= SAFE_CANVAS_HEIGHT \/ zoomU = MIN_ZOOM)

\* C27 (amended): the zoom applied at every attempt lies in [MIN_ZOOM, 1],
\* the loop stops after at most MaxZoomAttempts attempts, and when it stops
\* either the total stitched pixel height is at most SAFE_CANVAS_HEIGHT or
\* the zoom is within 1e-6 of MIN_ZOOM.
C27_ZoomBoundedAndStops ==
  /\ zPc \in {"attempt", "stopped"} => (MIN_ZOOM <= zoomU /\ zoomU <= ZoomUnit)
  /\ zAttempt <= MaxZoomAttempts
  /\ zPc = "stopped" =>
       (zTotal <= SAFE_CANVAS_HEIGHT \/ zoomU <= MIN_ZOOM + ZOOM_EPSILON)

\* The loop stopped after an attempt on a page still too tall, at a zoom
\* above MIN_ZOOM by less than the tolerance.
C27_Witness ==
  /\ zPc = "stopped"
  /\ zTotal > SAFE_CANVAS_HEIGHT
  /\ zoomU > MIN_ZOOM
  /\ zAttempt >= 1

\* ------------------------------------------------------------------------
\* Forced styles when a capture request is sent
\* ------------------------------------------------------------------------

MaxRaTiles == 3

RaVariants == {"contentScript", "part_002"}

\* The session is inside an await: timers and page scripts can run.
RaYielded == raPc \in {"settle", "awaiting", "backoff"}

InitReassert ==
  /\ OldIdle
  /\ RestIdle
  /\ LsnIdle
  /\ LadIdle
  /\ StIdle
  /\ OvIdle
  /\ HdrIdle
  /\ GrowIdle
  /\ StyIdle
  /\ ProbeIdle
  /\ BlobIdle
  /\ NoContentIdle
  /\ NameIdle
  /\ TeardownIdle
  /\ ZoomIdle
  /\ CompositeIdle
  /\ FindIdle
  /\ DupIdle
  /\ TwoIdle
  /\ ShortIdle
  /\ BackgroundIdle
  /\ BatchIdle
  /\ ViewerIdle
  /\ raVariant \in RaVariants
  /\ raPlanned \in 1..MaxRaTiles
  /\ raPc = "settle"
  /\ raForced = TRUE
  /\ raAttempt = 0
  /\ raTiles = 0
  /\ raSentForced = TRUE

\* A page script writes the element's original styles back.
PageReasserts ==
  /\ RaYielded
  /\ raForced
  /\ raForced' = FALSE
  /\ UNCHANGED <<raVariant, raPc, raAttempt, raTiles, raPlanned,
                 raSentForced>>
  /\ UNCHANGED offRa

\* After the settle wait: re-apply the forced styles, call safeCapture; its
\* first sendMessage runs in the same task (the throttle wait is over).
RaReapplyAndSend ==
  /\ raPc = "settle"
  /\ raForced' = TRUE
  /\ raAttempt' = 1
  /\ raSentForced' = TRUE
  /\ raPc' = "awaiting"
  /\ UNCHANGED <<raVariant, raTiles, raPlanned>>
  /\ UNCHANGED offRa

\* The response of the background arrives.
RaResponse(ok) ==
  /\ raPc = "awaiting"
  /\ IF ok
     THEN /\ raTiles' = raTiles + 1
          /\ raPc' = IF raTiles' < raPlanned THEN "settle" ELSE "done"
     ELSE /\ raPc' = IF raAttempt = CAPTURE_MAX_RETRIES THEN "done"
                     ELSE "backoff"
          /\ UNCHANGED raTiles
  /\ UNCHANGED <<raVariant, raForced, raAttempt, raPlanned, raSentForced>>
  /\ UNCHANGED offRa

\* The backoff wait ends and the retry loop sends the request again.
RaResend ==
  /\ raPc = "backoff"
  /\ raAttempt' = raAttempt + 1
  /\ raSentForced' = raForced
  /\ raPc' = "awaiting"
  /\ UNCHANGED <<raVariant, raForced, raTiles, raPlanned>>
  /\ UNCHANGED offRa

NextReassert ==
  \/ PageReasserts
  \/ RaReapplyAndSend
  \/ (\E ok \in BOOLEAN : RaResponse(ok))
  \/ RaResend

SpecReassert == InitReassert /\ [][NextReassert]_vars

\* C28: at the moment each capture-visible request is sent, including the
\* requests re-sent by the retry loop, every suppressed element carries its
\* forced styles, even when a page script re-asserts the original styles
\* between two tiles or during a wait of the session.
C28_ForcedAtEverySend ==
  raPc = "awaiting" => raSentForced

\* The first request of every safeCapture call is sent with forced styles.
C28_ForcedAtFirstSend ==
  (raPc = "awaiting" /\ raAttempt = 1) => raSentForced

\* ------------------------------------------------------------------------
\* Size of the composite canvas and the draw offsets
\* ------------------------------------------------------------------------

MaxCmpTiles == 3
MaxCmpHeight == 4
MaxCmpWidth == 2

CmpVariants == {"part_003", "merged"}

CmpTile(w, h) == [width |-> w, height |-> h]
CmpTileSet ==
  {CmpTile(w, h) : w \in 1..MaxCmpWidth, h \in 2..MaxCmpHeight}

\* The rows of tile i that are not drawn: the overlap with the tile before
\* it (part_003), or the cropped band of every tile but the first (merged).
SkipTop(v, i, ovl, crop) ==
  IF v = "part_003"
  THEN IF i > 1 THEN ovl[i - 1] ELSE 0
  ELSE IF i > 1 THEN Max(0, crop) ELSE 0

\* srcH = meta.height - skipTop, with the skipped rows drawn as well.
SrcH_Whole(h, skip) == h

\* srcH = meta.height - skipTop; merged: sh = t.img.height - sy
SrcH(h, skip) == h - skip

\* stitchedWidth = Math.max(stitchedWidth, loaded[i].width)
RECURSIVE StitchedWidth(_, _)
StitchedWidth(ts, n) ==
  IF n = 0 THEN 0 ELSE Max(StitchedWidth(ts, n - 1), ts[n].width)

\* part_003: stitchedHeight += loaded[i].height;
\*           if (i < overlaps.length) stitchedHeight -= overlaps[i];
RECURSIVE StitchedHeight003(_, _, _)
StitchedHeight003(ts, ovl, n) ==
  IF n = 0 THEN 0
  ELSE StitchedHeight003(ts, ovl, n - 1) + ts[n].height
         - (IF n <= Len(ovl) THEN ovl[n] ELSE 0)

\* merged: items.reduce((h, t) => h + (t.img.height - (t.cropTop || 0)), 0)
RECURSIVE StitchedHeightMerged(_, _, _)
StitchedHeightMerged(ts, crop, n) ==
  IF n = 0 THEN 0
  ELSE StitchedHeightMerged(ts, crop, n - 1) + ts[n].height
         - (IF n > 1 THEN crop ELSE 0)

\* The overlaps findVerticalOverlap can return for these tiles.
OverlapChoices(ts) ==
  {o \in [1..(Len(ts) - 1) -> 0..MaxCmpHeight] :
     \A i \in 1..(Len(ts) - 1) :
       o[i] <= Min(Min(ts[i].height \div 2, ts[i + 1].height \div 2),
                   MAX_OVERLAP_CHECK)}

\* cropTopDpx: the measured header band, at most 0.6 of the viewport.
CropChoices(ts) == 0..((ts[1].height * 6) \div 10)

InitComposite ==
  /\ OldIdle
  /\ RestIdle
  /\ LsnIdle
  /\ LadIdle
  /\ StIdle
  /\ OvIdle
  /\ HdrIdle
  /\ GrowIdle
  /\ StyIdle
  /\ ProbeIdle
  /\ BlobIdle
  /\ NoContentIdle
  /\ NameIdle
  /\ TeardownIdle
  /\ ZoomIdle
  /\ ReassertIdle
  /\ FindIdle
  /\ DupIdle
  /\ TwoIdle
  /\ ShortIdle
  /\ BackgroundIdle
  /\ BatchIdle
  /\ ViewerIdle
  /\ cmpVariant \in CmpVariants
  /\ cmpTiles \in UNION {[1..n -> CmpTileSet] : n \in 1..MaxCmpTiles}
  /\ cmpVariant = "merged" =>
       \A i \in 1..Len(cmpTiles) : cmpTiles[i] = cmpTiles[1]
  /\ cmpOverlaps \in (IF cmpVariant = "part_003"
                      THEN OverlapChoices(cmpTiles) ELSE {<<>>})
  /\ cmpCrop \in (IF cmpVariant = "merged"
                  THEN CropChoices(cmpTiles) ELSE {0})
  /\ cmpPc = "size"
  /\ canvasSize = [width |-> 0, height |-> 0]
  /\ yOff = 0
  /\ cmpIdx = 0
  /\ cmpDraws = <<>>

\* canvas.width = ...; canvas.height = ...
CmpSizeCanvas ==
  /\ cmpPc = "size"
  /\ canvasSize' =
       [width |-> StitchedWidth(cmpTiles, Len(cmpTiles)),
        height |-> IF cmpVariant = "part_003"
                   THEN StitchedHeight003(cmpTiles, cmpOverlaps,
                                          Len(cmpTiles))
                   ELSE StitchedHeightMerged(cmpTiles, cmpCrop,
                                             Len(cmpTiles))]
  /\ cmpPc' = "draw"
  /\ UNCHANGED <<cmpVariant, cmpTiles, cmpOverlaps, cmpCrop, yOff, cmpIdx,
                 cmpDraws>>
  /\ UNCHANGED offCmp

\* ctx.drawImage of the next tile below the rows already drawn.
CmpDraw ==
  /\ cmpPc = "draw"
  /\ cmpIdx < Len(cmpTiles)
  /\ LET i == cmpIdx + 1
         skip == SkipTop(cmpVariant, i, cmpOverlaps, cmpCrop)
         srcH == SrcH(cmpTiles[i].height, skip)
     IN  /\ cmpDraws' = Append(cmpDraws, [top |-> yOff, bottom |-> yOff + srcH])
         /\ yOff' = yOff + srcH
         /\ cmpIdx' = i
  /\ cmpPc' = IF cmpIdx' = Len(cmpTiles) THEN "done" ELSE "draw"
  /\ UNCHANGED <<cmpVariant, cmpTiles, cmpOverlaps, cmpCrop, canvasSize>>
  /\ UNCHANGED offCmp

NextComposite ==
  \/ CmpSizeCanvas
  \/ CmpDraw

SpecComposite == InitComposite /\ [][NextComposite]_vars

CmpSkipped ==
  LET n == Len(cmpTiles)
      S[i \in 0..n] ==
        IF i = 0 THEN 0
        ELSE S[i - 1] + SkipTop(cmpVariant, i, cmpOverlaps, cmpCrop)
  IN  S[n]

CmpHeights ==
  LET n == Len(cmpTiles)
      S[i \in 0..n] == IF i = 0 THEN 0 ELSE S[i - 1] + cmpTiles[i].height
  IN  S[n]

\* C29: the composite canvas has width equal to the maximum tile width and
\* height equal to the sum of the tile heights minus the rows skipped
\* (detected ovl, or cropped chrome band); drawing the tiles top to
\* bottom fills exactly that height: the final draw offset equals the canvas
\* height, no strip is left undrawn and no row is drawn outside the canvas.
C29_CanvasFilledExactly ==
  /\ cmpPc \in {"draw", "done"} =>
       /\ \A i \in 1..Len(cmpTiles) : cmpTiles[i].width <= canvasSize.width
       /\ \E i \in 1..Len(cmpTiles) : cmpTiles[i].width = canvasSize.width
       /\ canvasSize.height = CmpHeights - CmpSkipped
       /\ \A d \in 1..Len(cmpDraws) :
            /\ cmpDraws[d].top < cmpDraws[d].bottom
            /\ cmpDraws[d].bottom <= canvasSize.height
            /\ cmpDraws[d].top = IF d = 1 THEN 0 ELSE cmpDraws[d - 1].bottom
  /\ cmpPc = "done" => yOff = canvasSize.height

\* A composite of several tiles with rows skipped has been drawn.
C29_Witness ==
  /\ cmpPc = "done"
  /\ Len(cmpTiles) = MaxCmpTiles
  /\ CmpSkipped > 0
  /\ yOff = canvasSize.height

\* ------------------------------------------------------------------------
\* Greedy batching is maximal
\* ------------------------------------------------------------------------

\* The encoders that build batches by growing currentBatch tile by tile.
GreedyBatchers == {"contentScript", "part_001"}

\* The format of the test-encodes of the batch builder.
TestFmt(e) == IF e = "part_001" THEN "png" ELSE "webp"

\* A test-encode of these tiles was made and came out over the budget.
TestedOver(items) ==
  \E r \in sizeOf : /\ r.fmt = TestFmt(encoder)
                    /\ r.items = items
                    /\ r.size > MaxBytes(encoder)

\* A test-encode of these tiles was made and came out within the budget.
AcceptedByTest(items) ==
  \E r \in sizeOf : /\ r.fmt = TestFmt(encoder)
                    /\ r.items = items
                    /\ r.size <= MaxBytes(encoder)

\* The batch was closed before the end of the tile sequence.
ClosedEarly(b) == Last(b.items) < imageCount - 1

\* C30 as stated: every batch that is closed before the end of the tile
\* sequence is such that test-encoding it together with the next tile
\* exceeds the budget, and every batch that was accepted by a test-encode
\* is within the budget.
C30_ClosedBatchesTestedOver ==
  encoder \in GreedyBatchers =>
    \A k \in 1..Len(batches) :
      /\ ClosedEarly(batches[k]) =>
           TestedOver(Append(batches[k].items, Last(batches[k].items) + 1))
      /\ AcceptedByTest(batches[k].items) =>
           batches[k].size <= MaxBytes(encoder)

\* C30 (amended): every batch that is closed before the end of the tile
\* sequence is a single tile whose own test-encode exceeded the budget, or
\* is such that the test-encode of it together with the next tile exceeded
\* the budget; every batch that was accepted by a test-encode is within the
\* budget.
C30_GreedyMaximal ==
  encoder \in GreedyBatchers =>
    \A k \in 1..Len(batches) :
      /\ ClosedEarly(batches[k]) =>
           \/ TestedOver(Append(batches[k].items, Last(batches[k].items) + 1))
           \/ Len(batches[k].items) = 1 /\ TestedOver(batches[k].items)
      /\ AcceptedByTest(batches[k].items) =>
           batches[k].size <= MaxBytes(encoder)

\* A batch of two accepted tiles was closed because the third did not fit,
\* and the batching is over.
C30_Witness ==
  /\ encoder \in GreedyBatchers
  /\ encPc \in {"save", "done"}
  /\ Len(batches) = 2
  /\ Len(batches[1].items) = 2
  /\ AcceptedByTest(batches[1].items)
  /\ TestedOver(Append(batches[1].items, 2))

\* ------------------------------------------------------------------------
\* findVerticalOverlap as a function of its three arguments (part_003)
\* ------------------------------------------------------------------------

MaxFoRows == 3
MaxFoCheck == 4

\* The arrays of row hashes the function is called with, the empty one
\* included.
FoHashArrays == UNION {[1..n -> RowHashes] : n \in 0..MaxFoRows}

InitFind ==
  /\ OldIdle
  /\ RestIdle
  /\ LsnIdle
  /\ LadIdle
  /\ StIdle
  /\ OvIdle
  /\ HdrIdle
  /\ GrowIdle
  /\ StyIdle
  /\ ProbeIdle
  /\ BlobIdle
  /\ NoContentIdle
  /\ NameIdle
  /\ TeardownIdle
  /\ ZoomIdle
  /\ ReassertIdle
  /\ CompositeIdle
  /\ DupIdle
  /\ TwoIdle
  /\ ShortIdle
  /\ BackgroundIdle
  /\ BatchIdle
  /\ ViewerIdle
  /\ foA \in FoHashArrays
  /\ foB \in FoHashArrays
  /\ foMaxCheck \in 0..MaxFoCheck
  /\ foPc = "call"
  /\ foResult = 0

\* One call of findVerticalOverlap(aHashes, bHashes, maxCheck).
FoCall ==
  /\ foPc = "call"
  /\ foResult' = FindVerticalOverlap(foA, foB, foMaxCheck)
  /\ foPc' = "done"
  /\ UNCHANGED <<foA, foB, foMaxCheck>>
  /\ UNCHANGED offFo

NextFind == FoCall

SpecFind == InitFind /\ [][NextFind]_vars

\* The run lengths o, 1 <= o <= min(maxCheck, |aHashes|, |bHashes|), for
\* which the last o row hashes of A equal the first o row hashes of B
\* position by position.
FoRuns ==
  {o \in 1..Min(foMaxCheck, Min(Len(foA), Len(foB))) :
     \A r \in 1..o : foA[Len(foA) - o + r] = foB[r]}

\* C31: findVerticalOverlap(aHashes, bHashes, maxCheck) returns the largest
\* o with 1 <= o <= min(maxCheck, |aHashes|, |bHashes|) such that the last
\* o row hashes of A equal the first o row hashes of B position by
\* position, and returns 0 when no such o exists.
C31_LargestMatchingRun ==
  foPc = "done" =>
    /\ FoRuns = {} => foResult = 0
    /\ FoRuns # {} => /\ foResult \in FoRuns
                      /\ \A o \in FoRuns : o <= foResult

\* The call returned a run that is not the longest one maxCheck allows (a
\* longer candidate was compared and rejected) and not the only matching
\* one (a shorter run matches as well).
C31_Witness ==
  /\ foPc = "done"
  /\ foResult >= 2
  /\ foResult < Min(foMaxCheck, Min(Len(foA), Len(foB)))
  /\ \E o \in FoRuns : o < foResult

\* ------------------------------------------------------------------------
\* The busy flag of the merged listener
\* ------------------------------------------------------------------------

\* A start-capture message is delivered to the listener in this step.
StartDelivered == started' = started + 1

\* C32: in the merged variant the busy flag is true exactly while a session
\* is in progress: a start-capture message received while busy starts no
\* session, and when the running session resolves or rejects busy becomes
\* false again so that a later start-capture is accepted.
C32_BusyWhileSessionRuns ==
  /\ [](lsnVariant = "merged" => (busy <=> Running # {}))
  /\ [][(lsnVariant = "merged" /\ StartDelivered) =>
          IF busy
          THEN sessions' = sessions
          ELSE /\ Len(sessions') = Len(sessions) + 1
               /\ sessions'[Len(sessions')].pc = "running"]_vars

\* Three messages were delivered to the merged listener: one was dropped
\* while a session ran, and one was accepted after the first session had
\* settled.
C32_Witness ==
  /\ lsnVariant = "merged"
  /\ started = 3
  /\ Len(sessions) = 2
  /\ sessions[1].pc = "done"
  /\ sessions[2].pc \in {"running", "awaiting"}
  /\ busy

\* ------------------------------------------------------------------------
\* An element recorded more than once (part_004 temporarilyFreezeVisuals /
\* restoreVisuals, merged hideAndLock / cleanupLocks)
\* ------------------------------------------------------------------------

MaxRecordings == 3

DupVariants == {"part_004", "merged"}

\* part_004 reads and writes el.style.cssText as a whole: the display
\* declaration with its priority, and whether the declarations of
\* FREEZE_STYLE are in it.
CssTexts ==
  {[display |-> d, important |-> i, frozen |-> FALSE] :
     d \in {"", "block"}, i \in BOOLEAN} \
  {[display |-> "", important |-> TRUE, frozen |-> FALSE]}

\* Merged: the inline style the page gave the element.
LockStyles ==
  {[StyleWith("") EXCEPT !.display = d, !.visibility = w] :
     d \in {"", "block"}, w \in {"", "visible"}}

\* temporarilyFreezeVisuals, body of elements.forEach: the entry pushed.
FreezeItem(st, isFixed) ==
  IF isFixed
  THEN [originalStyle |-> st, isFixed |-> TRUE,
        originalDisplay |-> st.display,
        originalImportance |-> st.important]
  ELSE [originalStyle |-> st, isFixed |-> FALSE,
        originalDisplay |-> "", originalImportance |-> FALSE]

\* temporarilyFreezeVisuals, body of elements.forEach: el.style afterwards.
FreezeStyle(st, isFixed) ==
  IF isFixed
  THEN [display |-> "none", important |-> TRUE, frozen |-> TRUE]
  ELSE [st EXCEPT !.frozen = TRUE]

\* restoreVisuals, body of forEach: whatever the display branch writes,
\* `item.el.style.cssText = item.originalStyle` replaces the whole style.
RestoreItem(st, item) ==
  LET shown == IF item.isFixed
               THEN IF item.originalDisplay # ""
                    THEN [st EXCEPT !.display = item.originalDisplay,
                                    !.important = item.originalImportance]
                    ELSE [st EXCEPT !.display = "", !.important = FALSE]
               ELSE st
  IN  [p \in DOMAIN shown |-> item.originalStyle[p]]

InitDuplicate ==
  /\ OldIdle
  /\ RestIdle
  /\ LsnIdle
  /\ LadIdle
  /\ StIdle
  /\ OvIdle
  /\ HdrIdle
  /\ GrowIdle
  /\ StyIdle
  /\ ProbeIdle
  /\ BlobIdle
  /\ NoContentIdle
  /\ NameIdle
  /\ TeardownIdle
  /\ ZoomIdle
  /\ ReassertIdle
  /\ CompositeIdle
  /\ FindIdle
  /\ TwoIdle
  /\ ShortIdle
  /\ BackgroundIdle
  /\ BatchIdle
  /\ ViewerIdle
  /\ dupVariant \in DupVariants
  /\ dupFixed \in (IF dupVariant = "part_004" THEN BOOLEAN ELSE {TRUE})
  /\ dupTimes \in 1..MaxRecordings
  /\ dupOrig \in (IF dupVariant = "part_004" THEN CssTexts ELSE LockStyles)
  /\ dupStyle = dupOrig
  /\ dupRecs = <<>>
  /\ dupIdx = 0
  /\ dupPc = "record"

\* The element comes up in the loop of temporarilyFreezeVisuals (it matches
\* one more selector) or of hideAndLock (it is in one more list).
DupRecord ==
  /\ dupPc = "record"
  /\ Len(dupRecs) < dupTimes
  /\ IF dupVariant = "part_004"
     THEN /\ dupRecs' = Append(dupRecs, FreezeItem(dupStyle, dupFixed))
          /\ dupStyle' = FreezeStyle(dupStyle, dupFixed)
     ELSE /\ dupRecs' = Append(dupRecs, dupStyle)
          /\ dupStyle' = HideAndLock(dupStyle)
  /\ UNCHANGED <<dupVariant, dupPc, dupFixed, dupTimes, dupOrig, dupIdx>>
  /\ UNCHANGED offDup

\* The capture runs with the element suppressed; restoration begins.
DupCaptured ==
  /\ dupPc = "record"
  /\ Len(dupRecs) = dupTimes
  /\ dupPc' = "restore"
  /\ UNCHANGED <<dupVariant, dupFixed, dupTimes, dupOrig, dupStyle, dupRecs,
                 dupIdx>>
  /\ UNCHANGED offDup

\* restoreVisuals / cleanupLocks walk the entries from the first to the
\* last.
DupRestore ==
  /\ dupPc = "restore"
  /\ dupIdx < Len(dupRecs)
  /\ dupStyle' = IF dupVariant = "part_004"
                 THEN RestoreItem(dupStyle, dupRecs[dupIdx + 1])
                 ELSE CleanupLocks(dupStyle, dupRecs[dupIdx + 1])
  /\ dupIdx' = dupIdx + 1
  /\ UNCHANGED <<dupVariant, dupPc, dupFixed, dupTimes, dupOrig, dupRecs>>
  /\ UNCHANGED offDup

DupRestored ==
  /\ dupPc = "restore"
  /\ dupIdx = Len(dupRecs)
  /\ dupPc' = "done"
  /\ UNCHANGED <<dupVariant, dupFixed, dupTimes, dupOrig, dupStyle, dupRecs,
                 dupIdx>>
  /\ UNCHANGED offDup

NextDuplicate ==
  \/ DupRecord
  \/ DupCaptured
  \/ DupRestore
  \/ DupRestored

SpecDuplicate == InitDuplicate /\ [][NextDuplicate]_vars

\* C33: when the same element is recorded more than once by suppression (it
\* matches several selectors in temporarilyFreezeVisuals, or it is in more
\* than one of the lists passed to hideAndLock), restoration still returns
\* the element's inline style to its value before the session.
C33_RecordedTwiceRestored ==
  (dupPc = "done" /\ dupTimes >= 2) => dupStyle = dupOrig

\* An element recorded once gets its inline style back.
C33_RecordedOnceRestored ==
  (dupPc = "done" /\ dupTimes = 1) => dupStyle = dupOrig

\* ------------------------------------------------------------------------
\* Two start-capture messages in one page, first variant (no busy guard)
\* ------------------------------------------------------------------------

\* The first session and the one started by the second message.
TwSessions == {1, 2}

TwNotStarted == [pc |-> "none", originalZoom |-> "", originalOverflow |-> ""]

\* Inline values the page may have set itself.
TwZooms == {"", "1.5"}
TwOverflows == {"", "scroll"}

InitTwo ==
  /\ OldIdle
  /\ RestIdle
  /\ LsnIdle
  /\ LadIdle
  /\ StIdle
  /\ OvIdle
  /\ HdrIdle
  /\ GrowIdle
  /\ StyIdle
  /\ ProbeIdle
  /\ BlobIdle
  /\ NoContentIdle
  /\ NameIdle
  /\ TeardownIdle
  /\ ZoomIdle
  /\ ReassertIdle
  /\ CompositeIdle
  /\ FindIdle
  /\ DupIdle
  /\ ShortIdle
  /\ BackgroundIdle
  /\ BatchIdle
  /\ ViewerIdle
  /\ twZoom \in TwZooms
  /\ twOverflow \in TwOverflows
  /\ twOrigZoom = twZoom
  /\ twOrigOverflow = twOverflow
  /\ twSess = [s \in TwSessions |-> TwNotStarted]

\* contentScript.js 28-35 and 135-149: the listener calls startCapture(),
\* which saves the current overflow and zoom and applies ZOOM_FACTOR before
\* its first await. The second message arrives while the first session is
\* running.
TwStart(s) ==
  /\ twSess[s].pc = "none"
  /\ s = 2 => twSess[1].pc \notin {"none", "done"}
  /\ twSess' = [twSess EXCEPT ![s] = [pc |-> "zoomed",
                                       originalZoom |-> twZoom,
                                       originalOverflow |-> twOverflow]]
  /\ twZoom' = ZoomOf("contentScript")
  /\ UNCHANGED <<twOverflow, twOrigZoom, twOrigOverflow>>
  /\ UNCHANGED offTw

\* contentScript.js 204: scrollingEl.style.overflow = 'hidden', after the
\* awaits of the detection.
TwHide(s) ==
  /\ twSess[s].pc = "zoomed"
  /\ twSess' = [twSess EXCEPT ![s].pc = "hidden"]
  /\ twOverflow' = "hidden"
  /\ UNCHANGED <<twZoom, twOrigZoom, twOrigOverflow>>
  /\ UNCHANGED offTw

\* contentScript.js 243-246: after the capture loop the overflow and the
\* zoom saved by this session are written back.
TwRestore(s) ==
  /\ twSess[s].pc = "hidden"
  /\ twSess' = [twSess EXCEPT ![s].pc = "restored"]
  /\ twOverflow' = twSess[s].originalOverflow
  /\ twZoom' = twSess[s].originalZoom
  /\ UNCHANGED <<twOrigZoom, twOrigOverflow>>
  /\ UNCHANGED offTw

\* contentScript.js 353-357: something in the try block threw (a capture, a
\* tile that does not load); the catch writes the saved values back.
TwCatch(s) ==
  /\ twSess[s].pc \in {"zoomed", "hidden", "restored"}
  /\ twSess' = [twSess EXCEPT ![s].pc = "done"]
  /\ twOverflow' = twSess[s].originalOverflow
  /\ twZoom' = twSess[s].originalZoom
  /\ UNCHANGED <<twOrigZoom, twOrigOverflow>>
  /\ UNCHANGED offTw

\* contentScript.js 258-351: the tiles are stitched, encoded and saved.
TwFinish(s) ==
  /\ twSess[s].pc = "restored"
  /\ twSess' = [twSess EXCEPT ![s].pc = "done"]
  /\ UNCHANGED <<twZoom, twOverflow, twOrigZoom, twOrigOverflow>>
  /\ UNCHANGED offTw

NextTwo ==
  \/ (\E s \in TwSessions : TwStart(s))
  \/ (\E s \in TwSessions : TwHide(s))
  \/ (\E s \in TwSessions : TwRestore(s))
  \/ (\E s \in TwSessions : TwCatch(s))
  \/ (\E s \in TwSessions : TwFinish(s))

SpecTwo == InitTwo /\ [][NextTwo]_vars

\* C34: in the variants without a busy guard, when a second start-capture
\* message arrives while a first session is running in the same page, after
\* both sessions have finished the overflow style and the zoom equal the
\* values they had before the first session started.
C34_TwoSessionsRestore ==
  (\A s \in TwSessions : twSess[s].pc = "done") =>
    /\ twZoom = twOrigZoom
    /\ twOverflow = twOrigOverflow

\* A session that runs alone puts the overflow and the zoom back.
C34_OneSessionRestores ==
  (twSess[1].pc = "done" /\ twSess[2].pc = "none") =>
    /\ twZoom = twOrigZoom
    /\ twOverflow = twOrigOverflow

\* ------------------------------------------------------------------------
\* A page whose total height is at most the viewport height
\* ------------------------------------------------------------------------

MaxShortViewport == 3

ShVariants == {"contentScript", "part_004", "merged"}

\* scrollTo({ top }) on a page of height H in a viewport of height V.
ShScrollTo(top, H, V) == Max(0, Min(top, H - V))

InitShort ==
  /\ OldIdle
  /\ RestIdle
  /\ LsnIdle
  /\ LadIdle
  /\ StIdle
  /\ OvIdle
  /\ HdrIdle
  /\ GrowIdle
  /\ StyIdle
  /\ ProbeIdle
  /\ BlobIdle
  /\ NoContentIdle
  /\ NameIdle
  /\ TeardownIdle
  /\ ZoomIdle
  /\ ReassertIdle
  /\ CompositeIdle
  /\ FindIdle
  /\ DupIdle
  /\ TwoIdle
  /\ BackgroundIdle
  /\ BatchIdle
  /\ ViewerIdle
  /\ shVariant \in ShVariants
  /\ shViewport \in 1..MaxShortViewport
  /\ shHeight \in 1..shViewport
  /\ shTop = 0
  /\ shPositions = <<>>
  /\ shLastHash = NullHash
  /\ shTiles = <<>>
  /\ shPc = "start"

\* contentScript.js 206-213: the positions are planned.
ShPlan ==
  /\ shPc = "start"
  /\ shVariant = "contentScript"
  /\ shPositions' = PositionsCS(0, shHeight, shViewport, <<>>)
  /\ shPc' = "loop"
  /\ UNCHANGED <<shVariant, shHeight, shViewport, shTop, shLastHash, shTiles>>
  /\ UNCHANGED offSh

\* contentScript.js 217-241: one planned position is scrolled to and
\* captured.
ShStaticTile(p) ==
  /\ shPc = "loop"
  /\ shVariant = "contentScript"
  /\ Len(shTiles) < Len(shPositions)
  /\ shTop' = ShScrollTo(shPositions[Len(shTiles) + 1], shHeight, shViewport)
  /\ shTiles' = Append(shTiles, p)
  /\ UNCHANGED <<shVariant, shPc, shHeight, shViewport, shPositions,
                 shLastHash>>
  /\ UNCHANGED offSh

ShStaticEnd ==
  /\ shPc = "loop"
  /\ shVariant = "contentScript"
  /\ Len(shTiles) = Len(shPositions)
  /\ shPc' = "done"
  /\ UNCHANGED <<shVariant, shHeight, shViewport, shTop, shPositions,
                 shLastHash, shTiles>>
  /\ UNCHANGED offSh

\* part_004 243-244 and merged 453-457: the first tile, at the top.
ShFirstTile(p) ==
  /\ shPc = "start"
  /\ shVariant \in {"part_004", "merged"}
  /\ shTiles' = <<p>>
  /\ shLastHash' = IF shVariant = "merged" THEN Hash(p) ELSE shLastHash
  /\ shPc' = "loop"
  /\ UNCHANGED <<shVariant, shHeight, shViewport, shTop, shPositions>>
  /\ UNCHANGED offSh

\* part_004 247-274: one pass of `while (true)`: scroll by a viewport, read
\* the offset, capture, push, and break when at the bottom or over the tile
\* limit.
ShDynIter(p) ==
  /\ shPc = "loop"
  /\ shVariant = "part_004"
  /\ LET currentScrollTop == ShScrollTo(shTop + shViewport, shHeight,
                                        shViewport)
         maxScrollTop == shHeight - shViewport
         isAtBottom == currentScrollTop >= maxScrollTop
     IN  /\ shTop' = currentScrollTop
         /\ shTiles' = Append(shTiles, p)
         /\ shPc' = IF isAtBottom \/ Len(shTiles) + 1 > DYNAMIC_TILE_LIMIT
                    THEN "done" ELSE "loop"
  /\ UNCHANGED <<shVariant, shHeight, shViewport, shPositions, shLastHash>>
  /\ UNCHANGED offSh

\* merged 471-476: `if (scrollEl.scrollTop >= maxTop) break;` with
\* maxTop = scrollHeight - vpH - 2.
ShMergedLoopExit ==
  /\ shPc = "loop"
  /\ shVariant = "merged"
  /\ \/ Len(shTiles) >= CFG_maxTiles
     \/ shTop >= shHeight - shViewport - NEAR_BOTTOM_PX
  /\ shPc' = "sweep"
  /\ UNCHANGED <<shVariant, shHeight, shViewport, shTop, shPositions,
                 shLastHash, shTiles>>
  /\ UNCHANGED offSh

\* merged 505-514: the final capture is pushed unless it is a near-duplicate
\* of the last tile.
ShMergedSweep(p) ==
  /\ shPc = "sweep"
  /\ shVariant = "merged"
  /\ shTop' = ShScrollTo(shHeight, shHeight, shViewport)
  /\ shTiles' = IF ~Truthy(shLastHash)
                   \/ Hamming(Hash(p), shLastHash) >= CFG_phashNearDupe
                THEN Append(shTiles, p) ELSE shTiles
  /\ shPc' = "done"
  /\ UNCHANGED <<shVariant, shHeight, shViewport, shPositions, shLastHash>>
  /\ UNCHANGED offSh

NextShort ==
  \/ ShPlan
  \/ (\E p \in Pictures : ShStaticTile(p))
  \/ ShStaticEnd
  \/ (\E p \in Pictures : ShFirstTile(p))
  \/ (\E p \in Pictures : ShDynIter(p))
  \/ ShMergedLoopExit
  \/ (\E p \in Pictures : ShMergedSweep(p))

SpecShort == InitShort /\ [][NextShort]_vars

\* C35: for a page whose total height is at most the viewport height, a
\* session collects exactly one tile.
C35_ShortPageOneTile ==
  shPc = "done" => Len(shTiles) = 1

\* The first variant plans and collects one tile for such a page.
C35_StaticPlanOneTile ==
  (shPc = "done" /\ shVariant = "contentScript") => Len(shTiles) = 1

\* ------------------------------------------------------------------------
\* What the scroll probe concludes about an element in the page flow
\* ------------------------------------------------------------------------

\* Document offsets of elements that move with the page content.
FlowDocTops == {0, 40}

\* el.getBoundingClientRect().top of an element in the flow.
RectTop(docTop, scrollY) == docTop - scrollY

\* `if (Math.abs(afterTop - beforeTop) < 1) visuallyFixed.push(el)`
VisuallyFixed(beforeTop, afterTop) == Abs(afterTop - beforeTop) < 1

\* C36: an element that moves with the page content when the page scrolls
\* is never classified as visually fixed by the empirical probe, for every
\* starting scroll offset, including pages that cannot scroll and offsets at
\* the bottom where the probing scroll does not move the page.
C36_FlowElementNotFixed ==
  prPc = "forward" =>
    \A y \in FlowDocTops :
      ~VisuallyFixed(RectTop(y, prStart), RectTop(y, prTop))

\* When the page can scroll on from the starting offset, elements in the
\* flow are told apart from fixed ones.
C36_ScrollablePage ==
  (prPc = "forward" /\ prStart < prMax) =>
    \A y \in FlowDocTops :
      ~VisuallyFixed(RectTop(y, prStart), RectTop(y, prTop))

\* ------------------------------------------------------------------------
\* The background's onMessage listeners (background.js, part_006, part_007)
\* ------------------------------------------------------------------------

MaxBkMessages == 2

BkVariants == {"background", "part_006", "part_007"}

\* The listeners a file registers with chrome.runtime.onMessage.addListener:
\* background.js registers one at line 2 and one at line 44.
BkListeners(v) ==
  IF v = "background" THEN {"first", "second"} ELSE {"only"}

\* The messages sent to each background.
BkMessages(v) ==
  IF v = "background" THEN {"capture-visible", "start-capture"}
  ELSE {"capture-visible"}

\* The test at the top of each listener.
BkTakes(v, l, msg) ==
  CASE v = "background" /\ l = "first" -> msg = "capture-visible"
    [] v = "background" /\ l = "second" ->
         msg \in {"start-capture", "capture-visible"}
    [] OTHER -> msg = "capture-visible"

\* The awaited steps of a handler, in order.
BkStages(v, l, msg) ==
  CASE v = "background" /\ l = "second" /\ msg = "start-capture" ->
         <<"query", "inject", "tell">>
    [] v = "part_006" -> <<"capture", "store", "open">>
    [] v = "part_007" -> <<"capture", "convert", "url", "open">>
    [] OTHER -> <<"capture">>

\* How a step can end. query: a tab, no active tab, or an internal page.
BkOutcomes(stage) ==
  IF stage = "query" THEN {"ok", "noTab", "internal"} ELSE {"ok", "fail"}

\* The handler calls sendResponse after this outcome of this step and
\* returns: every failure except a failed injection (caught and ignored,
\* background.js 71-74), and both outcomes of the last step.
BkResponds(stages, i, out) ==
  \/ out # "ok" /\ stages[i] # "inject"
  \/ i = Len(stages)

BkResponse(stage, out) ==
  IF out = "ok" THEN [success |-> TRUE, error |-> "none"]
  ELSE [success |-> FALSE, error |-> stage]

\* captureVisibleWithRetries(3, ...) tries up to three times; the listener at
\* background.js 2-16 calls chrome.tabs.captureVisibleTab once.
BkMaxAttempts(v, l) ==
  IF v = "background" /\ l = "first" THEN 1 ELSE BG_maxRetries

\* Position of a stage in the handler.
BkIndex(stages, stage) == CHOOSE i \in 1..Len(stages) : stages[i] = stage

InitBackground ==
  /\ OldIdle
  /\ RestIdle
  /\ LsnIdle
  /\ LadIdle
  /\ StIdle
  /\ OvIdle
  /\ HdrIdle
  /\ GrowIdle
  /\ StyIdle
  /\ ProbeIdle
  /\ BlobIdle
  /\ NoContentIdle
  /\ NameIdle
  /\ TeardownIdle
  /\ ZoomIdle
  /\ ReassertIdle
  /\ CompositeIdle
  /\ FindIdle
  /\ DupIdle
  /\ TwoIdle
  /\ ShortIdle
  /\ BatchIdle
  /\ ViewerIdle
  /\ bkVariant \in BkVariants
  /\ bkMsg \in BkMessages(bkVariant)
  /\ bkMsgNo = 1
  /\ bkPc = [l \in BkListeners(bkVariant) |-> "waiting"]
  /\ bkAttempts = [l \in BkListeners(bkVariant) |-> 0]
  /\ bkProcessed = {}
  /\ bkResponses = <<>>

\* The message is dispatched: every registered listener is called with it.
\* A listener that takes it starts its handler and returns true, the others
\* return false / undefined.
BkDispatch ==
  /\ \A l \in DOMAIN bkPc : bkPc[l] = "waiting"
  /\ bkPc' = [l \in DOMAIN bkPc |->
                IF BkTakes(bkVariant, l, bkMsg)
                THEN BkStages(bkVariant, l, bkMsg)[1]
                ELSE "declined"]
  /\ bkProcessed' = {l \in DOMAIN bkPc : BkTakes(bkVariant, l, bkMsg)}
  /\ UNCHANGED <<bkVariant, bkMsg, bkMsgNo, bkAttempts, bkResponses>>
  /\ UNCHANGED offBk

\* captureVisibleWithRetries: an attempt that is not the last one fails; the
\* loop waits and tries again.
BkCaptureRetry(l) ==
  /\ l \in DOMAIN bkPc
  /\ bkPc[l] = "capture"
  /\ bkAttempts[l] + 1 < BkMaxAttempts(bkVariant, l)
  /\ bkAttempts' = [bkAttempts EXCEPT ![l] = @ + 1]
  /\ UNCHANGED <<bkVariant, bkMsg, bkMsgNo, bkPc, bkProcessed, bkResponses>>
  /\ UNCHANGED offBk

\* One awaited step of the handler of listener l ends with outcome out (for
\* the capture, a failure here is the failure of the last attempt).
BkStep(l, out) ==
  /\ l \in DOMAIN bkPc
  /\ bkPc[l] \notin {"waiting", "declined", "done"}
  /\ out \in BkOutcomes(bkPc[l])
  /\ (bkPc[l] = "capture" /\ out = "fail") =>
       bkAttempts[l] + 1 = BkMaxAttempts(bkVariant, l)
  /\ LET stages == BkStages(bkVariant, l, bkMsg)
         i == BkIndex(stages, bkPc[l])
     IN  IF BkResponds(stages, i, out)
         THEN /\ bkResponses' =
                   Append(bkResponses, BkResponse(bkPc[l], out))
              /\ bkPc' = [bkPc EXCEPT ![l] = "done"]
         ELSE /\ bkPc' = [bkPc EXCEPT ![l] = stages[i + 1]]
              /\ UNCHANGED bkResponses
  /\ UNCHANGED <<bkVariant, bkMsg, bkMsgNo, bkAttempts, bkProcessed>>
  /\ UNCHANGED offBk

\* Every handler has returned.
BkSettled == \A l \in DOMAIN bkPc : bkPc[l] \in {"declined", "done"}

\* The next message arrives.
BkNextMessage(msg) ==
  /\ BkSettled
  /\ bkMsgNo < MaxBkMessages
  /\ msg \in BkMessages(bkVariant)
  /\ bkMsg' = msg
  /\ bkMsgNo' = bkMsgNo + 1
  /\ bkPc' = [l \in DOMAIN bkPc |-> "waiting"]
  /\ bkAttempts' = [l \in DOMAIN bkPc |-> 0]
  /\ bkProcessed' = {}
  /\ bkResponses' = <<>>
  /\ UNCHANGED bkVariant
  /\ UNCHANGED offBk

NextBackground ==
  \/ BkDispatch
  \/ (\E l \in {"first", "second", "only"} : BkCaptureRetry(l))
  \/ (\E l \in {"first", "second", "only"}, out \in {"ok", "fail", "noTab", "internal"} :
        BkStep(l, out))
  \/ (\E msg \in {"capture-visible", "start-capture"} : BkNextMessage(msg))

SpecBackground == InitBackground /\ [][NextBackground]_vars

\* C37: for every capture-visible or start-capture message the background
\* receives, exactly one handler processes it and sendResponse is called
\* exactly once, on every path (success, capture failure, storage failure,
\* viewer-open failure, no active tab, internal page).
C37_OneHandlerOneResponse ==
  /\ (\A l \in DOMAIN bkPc : bkPc[l] # "waiting") =>
       Cardinality(bkProcessed) = 1
  /\ Len(bkResponses) <= 1
  /\ BkSettled => Len(bkResponses) = 1

\* Each handler by itself calls sendResponse exactly once: when all have
\* returned there are as many responses as handlers that took the message.
C37_OneResponsePerHandler ==
  BkSettled => Len(bkResponses) = Cardinality(bkProcessed)

\* ------------------------------------------------------------------------
\* makeBatchesByHeight (part_004)
\* ------------------------------------------------------------------------

MaxMbImages == 3
MaxMbImageHeight == 4
MaxMbMaxHeight == 3

\* `if (currentH > maxHeight)`: the test made before the image is counted.
Overflows_Late(currentH, h, maxHeight) == currentH > maxHeight

\* `if (currentH + img.height > maxHeight)`
Overflows(currentH, h, maxHeight) == currentH + h > maxHeight

\* `if (current.length) batches.push(current)`
PushIfAny(bs, current) == IF Len(current) > 0 THEN Append(bs, current) ELSE bs

RECURSIVE MbLoop(_, _, _, _, _, _)
\* The for loop of makeBatchesByHeight from image i on, and what follows it.
MbLoop(images, maxHeight, i, bs, current, currentH) ==
  IF i > Len(images) THEN PushIfAny(bs, current)
  ELSE LET img == images[i]
       IN  IF img.height > maxHeight
           THEN MbLoop(images, maxHeight, i + 1,
                       Append(PushIfAny(bs, current), <<img>>), <<>>, 0)
           ELSE IF Overflows(currentH, img.height, maxHeight)
           THEN MbLoop(images, maxHeight, i + 1, PushIfAny(bs, current),
                       <<img>>, img.height)
           ELSE MbLoop(images, maxHeight, i + 1, bs, Append(current, img),
                       currentH + img.height)

MakeBatchesByHeight(images, maxHeight) ==
  MbLoop(images, maxHeight, 1, <<>>, <<>>, 0)

InitBatch ==
  /\ OldIdle
  /\ RestIdle
  /\ LsnIdle
  /\ LadIdle
  /\ StIdle
  /\ OvIdle
  /\ HdrIdle
  /\ GrowIdle
  /\ StyIdle
  /\ ProbeIdle
  /\ BlobIdle
  /\ NoContentIdle
  /\ NameIdle
  /\ TeardownIdle
  /\ ZoomIdle
  /\ ReassertIdle
  /\ CompositeIdle
  /\ FindIdle
  /\ DupIdle
  /\ TwoIdle
  /\ ShortIdle
  /\ BackgroundIdle
  /\ ViewerIdle
  /\ \E n \in 0..MaxMbImages :
       \E hs \in [1..n -> 1..MaxMbImageHeight] :
         mbImages = [i \in 1..n |-> [id |-> i, height |-> hs[i]]]
  /\ mbMaxHeight \in 1..MaxMbMaxHeight
  /\ mbPc = "call"
  /\ mbBatches = <<>>

\* One call of makeBatchesByHeight(images, maxHeight).
MbCall ==
  /\ mbPc = "call"
  /\ mbBatches' = MakeBatchesByHeight(mbImages, mbMaxHeight)
  /\ mbPc' = "done"
  /\ UNCHANGED <<mbImages, mbMaxHeight>>
  /\ UNCHANGED offMb

NextBatch == MbCall

SpecBatch == InitBatch /\ [][NextBatch]_vars

RECURSIVE MbConcat(_)
\* The batches one after the other.
MbConcat(bs) == IF bs = <<>> THEN <<>> ELSE Head(bs) \o MbConcat(Tail(bs))

RECURSIVE MbHeight(_)
\* The summed height of a batch.
MbHeight(b) == IF b = <<>> THEN 0 ELSE Head(b).height + MbHeight(Tail(b))

\* C38: makeBatchesByHeight returns non-empty batches whose concatenation in
\* order equals the input image list, and the summed height of every batch
\* is at most maxHeight unless the batch consists of a single image that is
\* itself taller than maxHeight.
C38_BatchesPartitionWithinHeight ==
  mbPc = "done" =>
    /\ \A k \in 1..Len(mbBatches) : Len(mbBatches[k]) > 0
    /\ MbConcat(mbBatches) = mbImages
    /\ \A k \in 1..Len(mbBatches) :
         \/ MbHeight(mbBatches[k]) <= mbMaxHeight
         \/ /\ Len(mbBatches[k]) = 1
            /\ mbBatches[k][1].height > mbMaxHeight

\* The call returned a batch of two images that was closed because the
\* next image is taller than maxHeight, and that image as a batch of its own.
C38_Witness ==
  /\ mbPc = "done"
  /\ Len(mbBatches) = 2
  /\ Len(mbBatches[1]) = 2
  /\ MbHeight(mbBatches[1]) = mbMaxHeight
  /\ Len(mbBatches[2]) = 1
  /\ mbBatches[2][1].height > mbMaxHeight

\* ------------------------------------------------------------------------
\* The crop rectangle of the viewer (viewer.js)
\* ------------------------------------------------------------------------

MaxContainer == 4
MinContainer == 2

\* Container sizes, and the coordinates a pointer event can carry relative
\* to the container (window-level events reach outside it).
ContainerSizes == MinContainer..MaxContainer
PointerCoords == (0 - 1)..(MaxContainer + 1)

\* aspectSelect.value as numerator and denominator.
Aspects == {"free", "1", "4/3"}
RatioNum(asp) == IF asp = "4/3" THEN 4 ELSE 1
RatioDen(asp) == IF asp = "4/3" THEN 3 ELSE 1

\* Math.round(a / b) for a >= 0, b > 0.
RoundDiv(a, b) == (2 * a + b) \div (2 * b)

\* viewer.js 170-173: the clamp of updateSelection.
ClampRect(W, H, x, y, w, h) ==
  LET cx == Max(0, Min(W - 2, x))
      cy == Max(0, Min(H - 2, y))
  IN  [x |-> cx, y |-> cy,
       w |-> Max(2, Min(W - cx, w)),
       h |-> Max(2, Min(H - cy, h))]

\* viewer.js 155-175: updateSelection(current) with cropStart = start.
UpdateSelection(start, current, asp, W, H) ==
  LET x0 == Min(start.x, current.x)
      y0 == Min(start.y, current.y)
      w0 == Abs(current.x - start.x)
      h0 == Abs(current.y - start.y)
      num == RatioNum(asp)
      den == RatioDen(asp)
  IN  IF asp # "free" /\ w0 # 0 /\ h0 # 0
      THEN IF w0 * den > h0 * num
           THEN LET w1 == RoundDiv(h0 * num, den)
                IN  ClampRect(W, H,
                              IF current.x < start.x THEN start.x - w1 ELSE x0,
                              y0, w1, h0)
           ELSE LET h1 == RoundDiv(w0 * den, num)
                IN  ClampRect(W, H, x0,
                              IF current.y < start.y THEN start.y - h1 ELSE y0,
                              w0, h1)
      ELSE ClampRect(W, H, x0, y0, w0, h0)

\* viewer.js 193-200: selection.onpointermove.
DragSelection(rect, drag, p, W, H) ==
  LET nx == drag.orig.x + (p.x - drag.sx)
      ny == drag.orig.y + (p.y - drag.sy)
  IN  [rect EXCEPT !.x = Max(0, Min(W - drag.orig.w, nx)),
                   !.y = Max(0, Min(H - drag.orig.h, ny))]

\* The point is on the selection element.
OnSelection(p) ==
  /\ ~selHidden
  /\ cropRect # VwNull
  /\ cropRect.x <= p.x /\ p.x < cropRect.x + cropRect.w
  /\ cropRect.y <= p.y /\ p.y < cropRect.y + cropRect.h

InitViewer ==
  /\ OldIdle
  /\ RestIdle
  /\ LsnIdle
  /\ LadIdle
  /\ StIdle
  /\ OvIdle
  /\ HdrIdle
  /\ GrowIdle
  /\ StyIdle
  /\ ProbeIdle
  /\ BlobIdle
  /\ NoContentIdle
  /\ NameIdle
  /\ TeardownIdle
  /\ ZoomIdle
  /\ ReassertIdle
  /\ CompositeIdle
  /\ FindIdle
  /\ DupIdle
  /\ TwoIdle
  /\ ShortIdle
  /\ BackgroundIdle
  /\ BatchIdle
  /\ vwWidth \in ContainerSizes
  /\ vwHeight \in ContainerSizes
  /\ vwAspect \in Aspects
  /\ cropping = FALSE
  /\ cropStart = VwNull
  /\ cropRect = VwNull
  /\ selHidden = TRUE
  /\ selDrag = VwNull
  /\ pointerOn = "up"

\* viewer.js 142-146: the crop button.
ToggleCrop ==
  /\ cropping' = ~cropping
  /\ IF cropping
     THEN /\ cropStart' = VwNull
          /\ selHidden' = (cropRect = VwNull \/ selHidden)
          /\ UNCHANGED cropRect
     ELSE /\ cropRect' = VwNull
          /\ selHidden' = TRUE
          /\ UNCHANGED cropStart
  /\ UNCHANGED <<vwWidth, vwHeight, vwAspect, selDrag, pointerOn>>
  /\ UNCHANGED offVw

\* viewer.js 113-123 and 147-154: pointerdown on the container, outside the
\* selection element.
OnPointerDown(p) ==
  /\ pointerOn = "up"
  /\ p.x \in 0..(vwWidth - 1) /\ p.y \in 0..(vwHeight - 1)
  /\ ~OnSelection(p)
  /\ pointerOn' = "container"
  /\ IF cropping /\ cropStart = VwNull
     THEN /\ cropStart' = p
          /\ cropRect' = VwNull
          /\ selHidden' = FALSE
     ELSE UNCHANGED <<cropStart, cropRect, selHidden>>
  /\ UNCHANGED <<vwWidth, vwHeight, vwAspect, cropping, selDrag>>
  /\ UNCHANGED offVw

\* viewer.js 189-192: pointerdown on the selection element.
OnSelectionDown(p) ==
  /\ pointerOn = "up"
  /\ OnSelection(p)
  /\ pointerOn' = "selection"
  /\ selDrag' = [sx |-> p.x, sy |-> p.y, orig |-> cropRect]
  /\ UNCHANGED <<vwWidth, vwHeight, vwAspect, cropping, cropStart, cropRect,
                 selHidden>>
  /\ UNCHANGED offVw

\* A pointermove event: selection.onpointermove (193-200) when the selection
\* holds the pointer, then the window's onPointerMove (128-135).
OnPointerMove(p) ==
  /\ LET moved == IF selDrag # VwNull /\ cropRect # VwNull
                  THEN DragSelection(cropRect, selDrag, p, vwWidth, vwHeight)
                  ELSE cropRect
     IN  IF cropping /\ cropStart # VwNull
         THEN /\ cropRect' = UpdateSelection(cropStart, p, vwAspect,
                                             vwWidth, vwHeight)
              /\ selHidden' = FALSE
         ELSE /\ cropRect' = moved
              /\ selHidden' = IF moved # cropRect \/ (selDrag # VwNull
                                                       /\ cropRect # VwNull)
                              THEN FALSE ELSE selHidden
  /\ UNCHANGED <<vwWidth, vwHeight, vwAspect, cropping, cropStart, selDrag,
                 pointerOn>>
  /\ UNCHANGED offVw

\* A pointerup event: selection.onpointerup (201) when the selection holds
\* the pointer, then the window's onPointerUp (124-127, 178).
OnPointerUp(p) ==
  /\ pointerOn # "up"
  /\ pointerOn' = "up"
  /\ selDrag' = VwNull
  /\ IF cropping /\ cropStart # VwNull
     THEN /\ cropRect' = UpdateSelection(cropStart, p, vwAspect,
                                         vwWidth, vwHeight)
          /\ selHidden' = FALSE
          /\ cropping' = FALSE
          /\ cropStart' = VwNull
     ELSE UNCHANGED <<cropRect, selHidden, cropping, cropStart>>
  /\ UNCHANGED <<vwWidth, vwHeight, vwAspect>>
  /\ UNCHANGED offVw

\* viewer.js 77-84: the window is resized; the overlay canvas takes the new
\* size of the container and the selection element is positioned again from
\* cropRect.
ResizeOverlay(W, H) ==
  /\ <<W, H>> # <<vwWidth, vwHeight>>
  /\ vwWidth' = W
  /\ vwHeight' = H
  /\ selHidden' = IF cropRect # VwNull THEN FALSE ELSE selHidden
  /\ UNCHANGED <<vwAspect, cropping, cropStart, cropRect, selDrag, pointerOn>>
  /\ UNCHANGED offVw

NextViewer ==
  \/ ToggleCrop
  \/ (\E x \in PointerCoords, y \in PointerCoords :
        OnPointerDown([x |-> x, y |-> y]))
  \/ (\E x \in PointerCoords, y \in PointerCoords :
        OnSelectionDown([x |-> x, y |-> y]))
  \/ (\E x \in PointerCoords, y \in PointerCoords :
        OnPointerMove([x |-> x, y |-> y]))
  \/ (\E x \in PointerCoords, y \in PointerCoords :
        OnPointerUp([x |-> x, y |-> y]))
  \/ (\E W \in ContainerSizes, H \in ContainerSizes : ResizeOverlay(W, H))

SpecViewer == InitViewer /\ [][NextViewer]_vars

\* The rectangle lies inside a container of width W and height H.
InsideContainer(r, W, H) ==
  /\ r.x >= 0 /\ r.y >= 0
  /\ r.w >= 2 /\ r.h >= 2
  /\ r.x + r.w <= W
  /\ r.y + r.h <= H

\* C39: in the viewer, whenever a crop rectangle exists it lies inside the
\* container: x >= 0, y >= 0, w >= 2, h >= 2, x + w <= container width and
\* y + h <= container height, after any sequence of pointer-down,
\* pointer-move, pointer-up, selection-drag and window-resize events, with
\* or without a fixed aspect ratio.
C39_CropRectInsideContainer ==
  cropRect # VwNull => InsideContainer(cropRect, vwWidth, vwHeight)

\* Whenever updateSelection or a drag of the selection has just written the
\* rectangle, it lies inside the container as it is at that moment.
C39_InsideWhenWritten ==
  [][(cropRect' # cropRect /\ cropRect' # VwNull
        /\ (selDrag = VwNull \/ InsideContainer(selDrag.orig, vwWidth, vwHeight)))
       => InsideContainer(cropRect', vwWidth, vwHeight)]_vars

====
